---- MODULE Spec2Model ----
(***************************************************************************)
(* Risk importer plugin: the duplicate check and the transactional import  *)
(* of validated rows into the tenant's risk tables.                        *)
(*                                                                         *)
(* The store is the tenant's schema: the tables risks, vendorRisks,        *)
(* projects_risks and frameworks_risks.  An import runs its statements in  *)
(* one transaction on a working copy (tx.view) that replaces the committed *)
(* store at COMMIT.                                                        *)
(***************************************************************************)
EXTENDS Integers, Sequences, FiniteSets, TLC

\* Bound on the work of one behaviour: every validated batch costs one unit
\* plus one unit per row.
MaxLoad == 3

\* Bound on the number of statements the store fails in one behaviour.
MaxFaults == 1

\* JS null / undefined, and a request that has not been made.
NULL == "<null>"
NoRequest == [kind |-> "none"]

\* `x || y` of JavaScript on the values a mapped row can hold.
Falsy(v) == v = NULL \/ v = ""
OrElse(v, d) == IF Falsy(v) THEN d ELSE v

\* A property read on a mapped row: an absent key reads as undefined.
Get(data, f) == IF f \in DOMAIN data THEN data[f] ELSE NULL

\* Mutant of Join: the separator is ignored and ", " is used.
RECURSIVE JoinWithComma(_, _)
JoinWithComma(strs, sep) ==
    IF Len(strs) = 0 THEN ""
    ELSE IF Len(strs) = 1 THEN strs[1]
    ELSE strs[1] \o ", " \o JoinWithComma(Tail(strs), sep)

\* Array.prototype.join on a list of strings.
RECURSIVE Join(_, _)
Join(strs, sep) ==
    IF Len(strs) = 0 THEN ""
    ELSE IF Len(strs) = 1 THEN strs[1]
    ELSE strs[1] \o sep \o Join(Tail(strs), sep)

\* The template literal `{${riskData.risk_category}}`.
ArrayLiteral(v) == "{" \o v \o "}"

SetMin(S) == CHOOSE x \in S : \A y \in S : x <= y
SetMax(S) == CHOOSE x \in S : \A y \in S : y <= x

-----------------------------------------------------------------------------
(* Field schemas *)

ProjectRequired == <<"risk_name", "risk_description">>
ProjectOptional ==
    <<"ai_lifecycle_phase", "risk_category", "impact", "likelihood", "severity",
      "review_notes", "mitigation_status", "current_risk_level", "deadline",
      "mitigation_plan">>
VendorRequired == <<"risk_description">>
VendorOptional ==
    <<"impact_description", "likelihood", "risk_severity", "action_plan",
      "action_owner">>

SeqRange(s) == {s[k] : k \in 1..Len(s)}

-----------------------------------------------------------------------------
(* Validated rows submitted by the caller *)

\* Optional project fields, all supplied (values valid for the project schema;
\* risk_level_autocalculated is the matrix cell of Likely x Major).
ProjectFull ==
    [ai_lifecycle_phase |-> "Deployment & integration",
     risk_category |-> "Compliance risk",
     impact |-> "High impact",
     likelihood |-> "Likely",
     severity |-> "Major",
     review_notes |-> "Reviewed",
     mitigation_status |-> "In Progress",
     current_risk_level |-> "High risk",
     deadline |-> "2030-01-01T00:00:00.000Z",
     mitigation_plan |-> "Plan A",
     risk_level_autocalculated |-> "High risk"]

\* Optional project fields, all mapped but empty in the file.
ProjectBare == [f \in SeqRange(ProjectOptional) |-> NULL]

VendorFull ==
    [impact_description |-> "High impact",
     likelihood |-> "Likely",
     risk_severity |-> "High",
     action_plan |-> "Plan A",
     action_owner |-> "Owner A"]

VendorBare == [f \in SeqRange(VendorOptional) |-> NULL]

ProjectData ==
    {[risk_name |-> "N1", risk_description |-> "D1"] @@ ProjectFull,
     [risk_name |-> "N1", risk_description |-> "D1"] @@ ProjectBare,
     [risk_name |-> "N2", risk_description |-> "D1"] @@ ProjectBare}

VendorData ==
    {[risk_description |-> "D1"] @@ VendorFull,
     [risk_description |-> "D1"] @@ VendorBare,
     [risk_description |-> "D2"] @@ VendorBare}

\* What Validate returns for a row: {rowIndex, isValid, errors, data}.
ValidRow(ix, data) ==
    [rowIndex |-> ix, isValid |-> TRUE, errors |-> <<>>, data |-> data]

\* Invalid rows; their natural key is present (and is the key of a stored
\* record of InitialStores).
InvalidProjectRow(ix) ==
    [rowIndex |-> ix, isValid |-> FALSE,
     errors |-> <<"Risk description is required",
                  "Likelihood must be one of: Rare, Unlikely, Possible, Likely, Almost Certain">>,
     data |-> [risk_name |-> "N1", risk_description |-> NULL] @@
              [ProjectBare EXCEPT !.likelihood = "Often"]]

InvalidVendorRow(ix) ==
    [rowIndex |-> ix, isValid |-> FALSE,
     errors |-> <<"Likelihood must be one of: Very likely, Likely, Possible, Unlikely, Rare">>,
     data |-> [risk_description |-> "D1"] @@
              [VendorBare EXCEPT !.likelihood = "Often"]]

\* The rows /validate returns for a risk type: the vendor schema for
\* "vendor" and the project schema for anything else, the calculated level
\* for "project" alone.
RowsAt(riskType, ix) ==
    IF riskType = "vendor"
    THEN {ValidRow(ix, d) : d \in VendorData} \cup {InvalidVendorRow(ix)}
    ELSE IF riskType = "project"
    THEN {ValidRow(ix, d) : d \in ProjectData} \cup {InvalidProjectRow(ix)}
    ELSE {ValidRow(ix, [f \in DOMAIN d \ {"risk_level_autocalculated"} |-> d[f]]) :
            d \in ProjectData} \cup {InvalidProjectRow(ix)}

-----------------------------------------------------------------------------
(* The tenant's tables and the statements the handlers run on them *)

EmptyStore ==
    [risks |-> {}, vendorRisks |-> {}, projects_risks |-> {}, frameworks_risks |-> {}]

\* Mutant of MatchRisk: the is_deleted filter is missing.
MatchRiskWithDeleted(view, name) ==
    {r.id : r \in {x \in view.risks : x.risk_name = name}}

\* WHERE risk_name = :risk_name AND is_deleted = false
MatchRisk(view, name) ==
    {r.id : r \in {x \in view.risks : x.risk_name = name /\ ~x.is_deleted}}

\* Mutant of MatchVendorRisk: the is_deleted filter is missing.
MatchVendorRiskWithDeleted(view, desc) ==
    {r.id : r \in {x \in view.vendorRisks : x.risk_description = desc}}

\* WHERE risk_description = :risk_description AND is_deleted = false
MatchVendorRisk(view, desc) ==
    {r.id : r \in {x \in view.vendorRisks : x.risk_description = desc /\ ~x.is_deleted}}

\* WHERE risk_description = :risk_description AND vendor_id = :vendor_id
\*   AND is_deleted = false
MatchVendorRiskOf(view, desc, vendor) ==
    {r.id : r \in {x \in view.vendorRisks :
        x.risk_description = desc /\ x.vendor_id = vendor /\ ~x.is_deleted}}

\* A null id (`existingRisk?.id || null`); the serial ids start at 1.
NoId == 0

\* LIMIT 1 without ORDER BY: any one of the matching rows, or none.
LimitOne(ids) == IF ids = {} THEN {NoId} ELSE ids

RiskById(view, id) == CHOOSE r \in view.risks : r.id = id
VendorRiskById(view, id) == CHOOSE r \in view.vendorRisks : r.id = id

\* COALESCE(:param, column)
Coalesce(param, column) == IF param = NULL THEN column ELSE param

\* UPDATE risks SET ... WHERE id = :id, with the replacements of the handler.
UpdateRisk(view, id, d, now) ==
    LET old == RiskById(view, id)
        category == IF Falsy(Get(d, "risk_category")) THEN NULL
                    ELSE ArrayLiteral(Get(d, "risk_category"))
        new == [old EXCEPT
            !.ai_lifecycle_phase = Coalesce(OrElse(Get(d, "ai_lifecycle_phase"), NULL), @),
            !.risk_description = Coalesce(OrElse(Get(d, "risk_description"), NULL), @),
            !.risk_category = Coalesce(category, @),
            !.impact = Coalesce(OrElse(Get(d, "impact"), NULL), @),
            !.likelihood = Coalesce(OrElse(Get(d, "likelihood"), NULL), @),
            !.severity = Coalesce(OrElse(Get(d, "severity"), NULL), @),
            !.risk_level_autocalculated =
                Coalesce(OrElse(Get(d, "risk_level_autocalculated"), NULL), @),
            !.mitigation_status = Coalesce(OrElse(Get(d, "mitigation_status"), NULL), @),
            !.current_risk_level = Coalesce(OrElse(Get(d, "current_risk_level"), NULL), @),
            !.mitigation_plan = Coalesce(OrElse(Get(d, "mitigation_plan"), NULL), @),
            !.updated_at = now]
    IN [view EXCEPT !.risks = (@ \ {old}) \cup {new}]

\* new Date().toISOString() at logical time `now`.
NowISO(now) == "now@" \o ToString(now)

\* INSERT INTO risks (...) VALUES (...) RETURNING id, with the replacements
\* of the handler.
InsertRisk(view, id, d, now) ==
    LET new ==
        [id |-> id,
         risk_name |-> Get(d, "risk_name"),
         ai_lifecycle_phase |->
             OrElse(Get(d, "ai_lifecycle_phase"), "Problem definition & planning"),
         risk_description |-> Get(d, "risk_description"),
         risk_category |->
             IF Falsy(Get(d, "risk_category")) THEN "{Operational risk}"
             ELSE ArrayLiteral(Get(d, "risk_category")),
         impact |-> OrElse(Get(d, "impact"), "To be assessed"),
         assessment_mapping |-> "",
         controls_mapping |-> "",
         likelihood |-> OrElse(Get(d, "likelihood"), "Possible"),
         severity |-> OrElse(Get(d, "severity"), "Moderate"),
         risk_level_autocalculated |->
             OrElse(Get(d, "risk_level_autocalculated"), "Medium risk"),
         review_notes |-> OrElse(Get(d, "review_notes"), NULL),
         mitigation_status |-> OrElse(Get(d, "mitigation_status"), "Not Started"),
         current_risk_level |-> OrElse(Get(d, "current_risk_level"), "Medium risk"),
         deadline |-> OrElse(Get(d, "deadline"), NowISO(now)),
         mitigation_plan |-> OrElse(Get(d, "mitigation_plan"), "To be defined"),
         implementation_strategy |-> "",
         mitigation_evidence_document |-> "",
         likelihood_mitigation |-> "Possible",
         risk_severity |-> "Moderate",
         final_risk_level |-> "",
         approval_status |-> "Pending",
         date_of_assessment |-> NowISO(now),
         is_deleted |-> FALSE,
         updated_at |-> now]
    IN [view EXCEPT !.risks = @ \cup {new}]

\* INSERT INTO projects_risks (project_id, risk_id)
InsertProjectLink(view, project, risk) ==
    [view EXCEPT !.projects_risks = @ \cup {<<project, risk>>}]

\* Mutant of InsertFrameworkLink: the row goes to projects_risks.
InsertFrameworkLinkAsProject(view, framework, risk) ==
    [view EXCEPT !.projects_risks = @ \cup {<<framework, risk>>}]

\* INSERT INTO frameworks_risks (framework_id, risk_id)
InsertFrameworkLink(view, framework, risk) ==
    [view EXCEPT !.frameworks_risks = @ \cup {<<framework, risk>>}]

\* UPDATE vendorRisks SET ... WHERE id = :id, with the replacements of the
\* handler.
UpdateVendorRisk(view, id, d, now) ==
    LET old == VendorRiskById(view, id)
        new == [old EXCEPT
            !.impact_description = OrElse(Get(d, "impact_description"), NULL),
            !.likelihood = OrElse(Get(d, "likelihood"), NULL),
            !.risk_severity = OrElse(Get(d, "risk_severity"), NULL),
            !.action_plan = OrElse(Get(d, "action_plan"), NULL),
            !.action_owner = OrElse(Get(d, "action_owner"), NULL),
            !.risk_level = OrElse(Get(d, "risk_level"), NULL),
            !.updated_at = now]
    IN [view EXCEPT !.vendorRisks = (@ \ {old}) \cup {new}]

\* INSERT INTO vendorRisks (...) VALUES (...) RETURNING id, with the
\* replacements of the handler.
InsertVendorRisk(view, id, vendor, d, now) ==
    LET new ==
        [id |-> id,
         vendor_id |-> vendor,
         risk_description |-> Get(d, "risk_description"),
         impact_description |-> OrElse(Get(d, "impact_description"), NULL),
         likelihood |-> OrElse(Get(d, "likelihood"), NULL),
         risk_severity |-> OrElse(Get(d, "risk_severity"), NULL),
         action_plan |-> OrElse(Get(d, "action_plan"), NULL),
         action_owner |-> OrElse(Get(d, "action_owner"), NULL),
         risk_level |-> OrElse(Get(d, "risk_level"), NULL),
         is_deleted |-> FALSE,
         updated_at |-> now]
    IN [view EXCEPT !.vendorRisks = @ \cup {new}]

-----------------------------------------------------------------------------
(* One iteration of the import loop *)

\* The transaction as the handler sees it while the loop runs: the working
\* copy of the tables, the id sequences, and whether an earlier failure has
\* aborted the transaction.
\* A fault is the failure the store injects into this iteration: the number
\* of the failing statement (0: none) and whether the store answers a failed
\* statement by aborting the whole transaction (as PostgreSQL does) or by
\* undoing the statement alone.
NoFault == [at |-> 0, aborts |-> FALSE]

Failed(db, fault, k) == db.aborted \/ fault.at = k

\* rowError.message
ErrorMessage(db) ==
    IF db.aborted THEN "current transaction is aborted" ELSE "statement failed"

\* Mutant of ErrorResult: the outcome is pushed as a success.
ErrorResultAsSuccess(row, message) ==
    [rowIndex |-> row.rowIndex, success |-> TRUE, error |-> message, action |-> "error"]

ErrorResult(row, message) ==
    [rowIndex |-> row.rowIndex, success |-> FALSE, error |-> message, action |-> "error"]

\* The row's catch block, entered from a failed statement.
\* `n` is the number of statements the iteration has sent to the store.
RowCatch(db, view, seq, row, fault, n) ==
    [view |-> view, seq |-> seq, aborted |-> db.aborted \/ fault.aborts,
     result |-> ErrorResult(row, ErrorMessage(db)), stmts |-> n]

\* The end of an iteration that pushed `result`.
RowDone(db, view, seq, result, n) ==
    [view |-> view, seq |-> seq, aborted |-> db.aborted, result |-> result,
     stmts |-> n]

\* Mutant of DuplicateActionOf: the default is the plugin's configured
\* default, "skip".
DuplicateActionOrSkip(actions, row) ==
    OrElse(IF row.rowIndex \in DOMAIN actions THEN actions[row.rowIndex] ELSE NULL,
           "skip")

\* duplicateActions[row.rowIndex] || "create"
DuplicateActionOf(actions, row) ==
    OrElse(IF row.rowIndex \in DOMAIN actions THEN actions[row.rowIndex] ELSE NULL,
           "create")

Truthy(id) == id # NoId

\* Mutant of ProjectRow: an overwrite that finds no record is an error
\* instead of falling through to the INSERT.
ProjectRowStrictOverwrite(db, row, action, linkTo, now, fault, pick) ==
    LET d == row.data
        lookup == action = "overwrite" /\ ~Falsy(Get(d, "risk_name"))
        ins == IF lookup THEN 2 ELSE 1
        newId == db.seq.risks
        inserted == InsertRisk(db.view, newId, d, now)
        seq1 == [db.seq EXCEPT !.risks = @ + 1]
        toProject == linkTo.type = "project" /\ Truthy(linkTo.id)
        toFramework == linkTo.type = "framework" /\ Truthy(linkTo.id)
        linked == IF toProject THEN InsertProjectLink(inserted, linkTo.id, newId)
                  ELSE IF toFramework THEN InsertFrameworkLink(inserted, linkTo.id, newId)
                  ELSE inserted
    IN  IF lookup /\ Failed(db, fault, 1)
        THEN RowCatch(db, db.view, db.seq, row, fault, 1)
        ELSE IF lookup /\ pick # NoId
        THEN IF Failed(db, fault, 2)
             THEN RowCatch(db, db.view, db.seq, row, fault, 2)
             ELSE RowDone(db, UpdateRisk(db.view, pick, d, now), db.seq,
                          [rowIndex |-> row.rowIndex, success |-> TRUE,
                           riskId |-> pick, action |-> "overwritten"], 2)
        ELSE IF lookup
        THEN RowDone(db, db.view, db.seq,
                     ErrorResult(row, "No existing risk to overwrite"), 1)
        ELSE IF Failed(db, fault, ins)
        THEN RowCatch(db, db.view, db.seq, row, fault, ins)
        ELSE IF (toProject \/ toFramework) /\ Failed(db, fault, ins + 1)
        THEN RowCatch(db, inserted, seq1, row, fault, ins + 1)
        ELSE RowDone(db, linked, seq1,
                     [rowIndex |-> row.rowIndex, success |-> TRUE,
                      riskId |-> newId, action |-> "created"],
                     IF toProject \/ toFramework THEN ins + 1 ELSE ins)

\* The project branch of the row's try block.  `pick` is the row the
\* existence check returned (NoId: none).
ProjectRow(db, row, action, linkTo, now, fault, pick) ==
    LET d == row.data
        lookup == action = "overwrite" /\ ~Falsy(Get(d, "risk_name"))
        ins == IF lookup THEN 2 ELSE 1
        newId == db.seq.risks
        inserted == InsertRisk(db.view, newId, d, now)
        seq1 == [db.seq EXCEPT !.risks = @ + 1]
        toProject == linkTo.type = "project" /\ Truthy(linkTo.id)
        toFramework == linkTo.type = "framework" /\ Truthy(linkTo.id)
        linked == IF toProject THEN InsertProjectLink(inserted, linkTo.id, newId)
                  ELSE IF toFramework THEN InsertFrameworkLink(inserted, linkTo.id, newId)
                  ELSE inserted
    IN  IF lookup /\ Failed(db, fault, 1)
        THEN RowCatch(db, db.view, db.seq, row, fault, 1)
        ELSE IF lookup /\ pick # NoId
        THEN IF Failed(db, fault, 2)
             THEN RowCatch(db, db.view, db.seq, row, fault, 2)
             ELSE RowDone(db, UpdateRisk(db.view, pick, d, now), db.seq,
                          [rowIndex |-> row.rowIndex, success |-> TRUE,
                           riskId |-> pick, action |-> "overwritten"], 2)
        ELSE IF Failed(db, fault, ins)
        THEN RowCatch(db, db.view, db.seq, row, fault, ins)
        ELSE IF (toProject \/ toFramework) /\ Failed(db, fault, ins + 1)
        THEN RowCatch(db, inserted, seq1, row, fault, ins + 1)
        ELSE RowDone(db, linked, seq1,
                     [rowIndex |-> row.rowIndex, success |-> TRUE,
                      riskId |-> newId, action |-> "created"],
                     IF toProject \/ toFramework THEN ins + 1 ELSE ins)

\* Mutant of VendorLinked: the type of the link target is not checked.
VendorLinkedAnyType(linkTo) == Truthy(linkTo.id)

\* !(!linkTo?.id || linkTo.type !== "vendor")
VendorLinked(linkTo) == Truthy(linkTo.id) /\ linkTo.type = "vendor"

\* The vendor branch of the row's try block.
VendorRow(db, row, action, linkTo, now, fault, pick) ==
    LET d == row.data
        lookup == action = "overwrite" /\ ~Falsy(Get(d, "risk_description"))
        ins == IF lookup THEN 2 ELSE 1
        newId == db.seq.vendorRisks
    IN  IF ~VendorLinked(linkTo)
        THEN RowDone(db, db.view, db.seq,
                     ErrorResult(row, "Vendor must be selected for vendor risk import"),
                     0)
        ELSE IF lookup /\ Failed(db, fault, 1)
        THEN RowCatch(db, db.view, db.seq, row, fault, 1)
        ELSE IF lookup /\ pick # NoId
        THEN IF Failed(db, fault, 2)
             THEN RowCatch(db, db.view, db.seq, row, fault, 2)
             ELSE RowDone(db, UpdateVendorRisk(db.view, pick, d, now), db.seq,
                          [rowIndex |-> row.rowIndex, success |-> TRUE,
                           riskId |-> pick, action |-> "overwritten"], 2)
        ELSE IF Failed(db, fault, ins)
        THEN RowCatch(db, db.view, db.seq, row, fault, ins)
        ELSE RowDone(db, InsertVendorRisk(db.view, newId, linkTo.id, d, now),
                     [db.seq EXCEPT !.vendorRisks = @ + 1],
                     [rowIndex |-> row.rowIndex, success |-> TRUE,
                      riskId |-> newId, action |-> "created"], ins)

\* Mutant of Candidates: the existence check never finds a record.
CandidatesBlind(view, row, action, riskType, linkTo) == {NoId}

\* The rows the existence check of this iteration can return.
Candidates(view, row, action, riskType, linkTo) ==
    IF riskType = "project"
    THEN IF action = "overwrite" /\ ~Falsy(Get(row.data, "risk_name"))
         THEN LimitOne(MatchRisk(view, Get(row.data, "risk_name")))
         ELSE {NoId}
    ELSE IF VendorLinked(linkTo) /\ action = "overwrite"
            /\ ~Falsy(Get(row.data, "risk_description"))
         THEN LimitOne(MatchVendorRiskOf(view, Get(row.data, "risk_description"),
                                         linkTo.id))
         ELSE {NoId}

\* Mutant of ProcessRow: the skip branch is missing.
ProcessRowWithoutSkip(db, row, actions, riskType, linkTo, now, fault, pick) ==
    IF ~row.isValid
    THEN RowDone(db, db.view, db.seq, ErrorResult(row, Join(row.errors, "; ")), 0)
    ELSE IF riskType = "project"
    THEN ProjectRow(db, row, DuplicateActionOf(actions, row), linkTo, now, fault, pick)
    ELSE VendorRow(db, row, DuplicateActionOf(actions, row), linkTo, now, fault, pick)

\* The body of `for (const row of validatedRows)` for a row the action map
\* can be read for.
ProcessRow(db, row, actions, riskType, linkTo, now, fault, pick) ==
    IF ~row.isValid
    THEN RowDone(db, db.view, db.seq, ErrorResult(row, Join(row.errors, "; ")), 0)
    ELSE IF DuplicateActionOf(actions, row) = "skip"
    THEN RowDone(db, db.view, db.seq,
                 [rowIndex |-> row.rowIndex, success |-> TRUE, action |-> "skipped"], 0)
    ELSE IF riskType = "project"
    THEN ProjectRow(db, row, DuplicateActionOf(actions, row), linkTo, now, fault, pick)
    ELSE VendorRow(db, row, DuplicateActionOf(actions, row), linkTo, now, fault, pick)

-----------------------------------------------------------------------------
(* State *)

VARIABLES
    pluginContext,  \* the module-level `let pluginContext`: "null" or "ctx"
    store,          \* the committed tables of the tenant
    seq,            \* the id sequences of risks and vendorRisks
    clock,          \* logical time: the number of transactions begun
    load,           \* work done so far (bounded by MaxLoad)
    faults,         \* statements failed so far (bounded by MaxFaults)
    batch,          \* the validated rows the caller holds, with their risk type
    dup,            \* the response of the last check-duplicates request
    req,            \* the body of the import request being handled (its
                    \* validatedRows are batch.rows)
    tx,             \* the transaction of the import request: its status, the
                    \* tables and sequences when it began, its working copy
    cursor,         \* position of the import loop in validatedRows
    results,        \* the `results` array of the import handler
    trail,          \* per handled row: the transaction's tables after it and
                    \* the number of statements it sent
    resp,           \* the response of the import request
    pc              \* "idle", or "loop" while the import handler runs

vars == <<pluginContext, store, seq, clock, load, faults, batch, dup, req, tx,
          cursor, results, trail, resp, pc>>

\* Records the tenant already holds (written by the host application).
StoredRisk(id, name, deleted) ==
    [id |-> id, risk_name |-> name,
     ai_lifecycle_phase |-> "Monitoring & maintenance",
     risk_description |-> "D0",
     risk_category |-> "{Legal risk}",
     impact |-> "Old impact",
     assessment_mapping |-> "", controls_mapping |-> "",
     likelihood |-> "Rare", severity |-> "Minor",
     risk_level_autocalculated |-> "Very low risk",
     review_notes |-> "Old notes",
     mitigation_status |-> "On Hold",
     current_risk_level |-> "Low risk",
     deadline |-> "2020-01-01T00:00:00.000Z",
     mitigation_plan |-> "Old plan",
     implementation_strategy |-> "", mitigation_evidence_document |-> "",
     likelihood_mitigation |-> "Possible", risk_severity |-> "Moderate",
     final_risk_level |-> "", approval_status |-> "Pending",
     date_of_assessment |-> "2020-01-01T00:00:00.000Z",
     is_deleted |-> deleted, updated_at |-> 0]

StoredVendorRisk(id, desc, vendor, deleted) ==
    [id |-> id, vendor_id |-> vendor, risk_description |-> desc,
     impact_description |-> "Old impact",
     likelihood |-> "Rare", risk_severity |-> "Low",
     action_plan |-> "Old plan", action_owner |-> "Old owner",
     risk_level |-> "Low risk",
     is_deleted |-> deleted, updated_at |-> 0]

\* An empty tenant, and a tenant that holds a live risk N1, a soft-deleted
\* risk N2, a live risk whose name differs from N2 in case only, and vendor
\* risks of two vendors (D2 of vendor 1 is soft-deleted; a live one of
\* vendor 1 differs from D2 in case only).
InitialStores ==
    {EmptyStore,
     [EmptyStore EXCEPT
        !.risks = {StoredRisk(1, "N1", FALSE), StoredRisk(2, "N2", TRUE),
                   StoredRisk(3, "n2", FALSE)},
        !.vendorRisks = {StoredVendorRisk(1, "D1", 1, FALSE),
                         StoredVendorRisk(2, "D2", 1, TRUE),
                         StoredVendorRisk(3, "D2", 2, FALSE),
                         StoredVendorRisk(4, "d2", 1, FALSE)}]}

NextId(ids) == IF ids = {} THEN 1 ELSE SetMax(ids) + 1

NoBatch == [kind |-> "none"]
NoTx == [status |-> "none"]

Init ==
    /\ pluginContext = "null"
    /\ store \in InitialStores
    /\ seq = [risks |-> NextId({r.id : r \in store.risks}),
              vendorRisks |-> NextId({r.id : r \in store.vendorRisks})]
    /\ clock = 0
    /\ load = 0
    /\ faults = 0
    /\ batch = NoBatch
    /\ dup = NoRequest
    /\ req = NoRequest
    /\ tx = NoTx
    /\ cursor = 0
    /\ results = <<>>
    /\ trail = <<>>
    /\ resp = NoRequest
    /\ pc = "idle"

-----------------------------------------------------------------------------
(* Lifecycle hooks.  The host runs them between import sessions. *)

Quiescent == pc = "idle" /\ batch = NoBatch

onLoad ==
    /\ Quiescent
    /\ pluginContext' = "ctx"
    /\ UNCHANGED <<store, seq, clock, load, faults, batch, dup, req, tx, cursor,
                   results, trail, resp, pc>>

onUnload ==
    /\ Quiescent
    /\ pluginContext' = "null"
    /\ UNCHANGED <<store, seq, clock, load, faults, batch, dup, req, tx, cursor,
                   results, trail, resp, pc>>

onEnable ==
    /\ Quiescent
    /\ pluginContext' = "ctx"
    /\ UNCHANGED <<store, seq, clock, load, faults, batch, dup, req, tx, cursor,
                   results, trail, resp, pc>>

onDisable ==
    /\ Quiescent
    /\ UNCHANGED vars

-----------------------------------------------------------------------------
(* The caller: validated rows, action maps, link targets *)

\* rowIndex of the k-th data row of a file without blank rows (index + 2).
RowIndexAt(k) == k + 1

RECURSIVE BatchesOf(_, _)
BatchesOf(riskType, n) ==
    IF n = 0 THEN {<<>>}
    ELSE {Append(b, r) : b \in BatchesOf(riskType, n - 1),
                         r \in RowsAt(riskType, RowIndexAt(n))}

RiskTypes == {"project", "vendor"}
ImportActions == {"create", "overwrite", "skip"}

\* duplicateActions: a decision for some of the rows; for an invalid row
\* the caller sends no decision or "overwrite".
ActionMaps(rows) ==
    {m \in UNION {[D -> ImportActions] :
                    D \in SUBSET {rows[k].rowIndex : k \in 1..Len(rows)}} :
        \A k \in 1..Len(rows) :
            (~rows[k].isValid /\ rows[k].rowIndex \in DOMAIN m)
                => m[rows[k].rowIndex] = "overwrite"}

NoLink == [type |-> NULL, id |-> NoId]

LinkTargets(riskType) ==
    IF riskType = "project"
    THEN {NoLink, [type |-> "project", id |-> 7], [type |-> "framework", id |-> 8]}
    ELSE {NoLink, [type |-> "vendor", id |-> 1], [type |-> "vendor", id |-> NoId],
          [type |-> "project", id |-> 7]}

Tenants == {"tenant1", NULL}

\* Mutant of MissingTenant: the tenant check never fails.
MissingTenantIgnored(tenantId) == FALSE

\* if (!tenantId)
MissingTenant(tenantId) == Falsy(tenantId)

\* The caller obtains a batch of validated rows (the results of /validate).
ValidatedOf(riskTypes) ==
    /\ pc = "idle"
    /\ \E riskType \in riskTypes, tenantId \in Tenants, n \in 0..(MaxLoad - load - 1) :
         \E rows \in BatchesOf(riskType, n) :
            /\ batch' = [kind |-> "batch", rows |-> rows, riskType |-> riskType,
                         tenantId |-> tenantId]
            /\ load' = load + 1 + n
    /\ dup' = NoRequest
    /\ req' = NoRequest
    /\ resp' = NoRequest
    /\ tx' = NoTx
    /\ cursor' = 0
    /\ results' = <<>>
    /\ trail' = <<>>
    /\ UNCHANGED <<pluginContext, store, seq, clock, faults, pc>>

Validated == ValidatedOf(RiskTypes)

\* req.body.riskType when the caller sends none, or one the plugin does not
\* know.
UntypedRiskTypes == {NULL, "asset"}

ValidatedUntyped == ValidatedOf(UntypedRiskTypes)

-----------------------------------------------------------------------------
(* POST /check-duplicates *)

\* The entry pushed for one row; `pick` is the row the lookup returned.
DuplicateEntry(row, riskType, view, pick) ==
    IF pick = NoId
    THEN [rowIndex |-> row.rowIndex, existingRiskId |-> NoId,
          existingRiskName |-> NULL, isDuplicate |-> FALSE]
    ELSE [rowIndex |-> row.rowIndex, existingRiskId |-> pick,
          existingRiskName |->
              IF riskType = "project"
              THEN OrElse(RiskById(view, pick).risk_name, NULL)
              ELSE OrElse(VendorRiskById(view, pick).risk_description, NULL),
          isDuplicate |-> TRUE]

\* Mutant of DuplicateCandidates: invalid rows are looked up too.
DuplicateCandidatesAnyRow(row, riskType, view) ==
    IF riskType = "project"
    THEN IF Falsy(Get(row.data, "risk_name")) THEN {NoId}
         ELSE LimitOne(MatchRisk(view, Get(row.data, "risk_name")))
    ELSE IF Falsy(Get(row.data, "risk_description")) THEN {NoId}
         ELSE LimitOne(MatchVendorRisk(view, Get(row.data, "risk_description")))

\* The rows the lookup of check-duplicates can return for a row (NoId: no
\* lookup, or no match).
DuplicateCandidates(row, riskType, view) ==
    IF ~row.isValid THEN {NoId}
    ELSE IF riskType = "project"
    THEN IF Falsy(Get(row.data, "risk_name")) THEN {NoId}
         ELSE LimitOne(MatchRisk(view, Get(row.data, "risk_name")))
    ELSE IF Falsy(Get(row.data, "risk_description")) THEN {NoId}
         ELSE LimitOne(MatchVendorRisk(view, Get(row.data, "risk_description")))

\* The `duplicates` arrays the loop can build over the first n rows.
RECURSIVE DuplicateLists(_, _, _, _)
DuplicateLists(rows, riskType, view, n) ==
    IF n = 0 THEN {<<>>}
    ELSE {Append(ds, DuplicateEntry(rows[n], riskType, view, pick)) :
            ds \in DuplicateLists(rows, riskType, view, n - 1),
            pick \in DuplicateCandidates(rows[n], riskType, view)}

\* The number of SELECTs the loop sends for a row.
DuplicateQueries(row, riskType) ==
    IF ~row.isValid THEN 0
    ELSE IF riskType = "project"
    THEN IF Falsy(Get(row.data, "risk_name")) THEN 0 ELSE 1
    ELSE IF Falsy(Get(row.data, "risk_description")) THEN 0 ELSE 1

Count(entries, Test(_)) == Len(SelectSeq(entries, Test))

DuplicateSummary(duplicates) ==
    LET IsDup(e) == e.isDuplicate
    IN [total |-> Len(duplicates),
        duplicates |-> Count(duplicates, IsDup),
        unique |-> Len(duplicates) - Count(duplicates, IsDup)]

\* The caller sends the request before the import of the batch, or after an
\* import that answered with its ledger.
CheckDuplicates ==
    /\ pc = "idle"
    /\ batch # NoBatch
    /\ dup = NoRequest
    /\ req # NoRequest => (resp.kind = "response" /\ resp.status = "200")
    /\ LET tenantId == batch.tenantId IN
        IF MissingTenant(tenantId)
        THEN dup' = [kind |-> "response", status |-> "401", queries |-> <<>>,
                     error |-> "Unauthorized - tenant not found"]
        ELSE IF pluginContext = "null"
        THEN dup' = [kind |-> "response", status |-> "500", queries |-> <<>>,
                     error |-> "Database not available"]
        ELSE \E duplicates \in DuplicateLists(batch.rows, batch.riskType, store,
                                               Len(batch.rows)) :
               dup' = [kind |-> "response", status |-> "200",
                       queries |-> [k \in 1..Len(batch.rows) |->
                                       DuplicateQueries(batch.rows[k], batch.riskType)],
                       duplicates |-> duplicates,
                       summary |-> DuplicateSummary(duplicates)]
    /\ UNCHANGED <<pluginContext, store, seq, clock, load, faults, batch, req, tx,
                   cursor, results, trail, resp, pc>>

-----------------------------------------------------------------------------
(* POST /import *)

\* Mutant of ImportSummary: skipped rows are not counted as successes.
ImportSummarySkipFails(ledger) ==
    LET Succeeded(r) == r.success /\ r.action # "skipped"
        Created(r) == r.action = "created"
        Overwritten(r) == r.action = "overwritten"
        Skipped(r) == r.action = "skipped"
        Errored(r) == r.action = "error"
    IN [total |-> Len(ledger),
        success |-> Count(ledger, Succeeded),
        created |-> Count(ledger, Created),
        overwritten |-> Count(ledger, Overwritten),
        skipped |-> Count(ledger, Skipped),
        errors |-> Count(ledger, Errored)]

\* The summary of the import response.
ImportSummary(ledger) ==
    LET Succeeded(r) == r.success
        Created(r) == r.action = "created"
        Overwritten(r) == r.action = "overwritten"
        Skipped(r) == r.action = "skipped"
        Errored(r) == r.action = "error"
    IN [total |-> Len(ledger),
        success |-> Count(ledger, Succeeded),
        created |-> Count(ledger, Created),
        overwritten |-> Count(ledger, Overwritten),
        skipped |-> Count(ledger, Skipped),
        errors |-> Count(ledger, Errored)]

\* The handler up to the loop: the sequelize guard, the transaction, the
\* tenant check.
ImportBegin ==
    /\ pc = "idle"
    /\ batch # NoBatch
    /\ req = NoRequest
    /\ \E hasActions \in BOOLEAN, linkTo \in LinkTargets(batch.riskType),
          tenantId \in {batch.tenantId} :
        \E actions \in (IF hasActions THEN ActionMaps(batch.rows) ELSE {<<>>}) :
          /\ req' = [kind |-> "import",
                     hasActions |-> hasActions, duplicateActions |-> actions,
                     riskType |-> batch.riskType, linkTo |-> linkTo,
                     tenantId |-> tenantId]
          /\ IF pluginContext = "null"
             THEN /\ resp' = [kind |-> "response", status |-> "500",
                              error |-> "Database not available"]
                  /\ UNCHANGED <<tx, clock, pc, cursor>>
             ELSE IF MissingTenant(tenantId)
             THEN /\ tx' = [status |-> "rolledback", snapshot |-> store, view |-> store,
                             seq |-> seq]
                  /\ resp' = [kind |-> "response", status |-> "401",
                              error |-> "Unauthorized - tenant not found"]
                  /\ clock' = clock + 1
                  /\ UNCHANGED <<pc, cursor>>
             ELSE /\ tx' = [status |-> "active", snapshot |-> store, view |-> store,
                             seq |-> seq]
                  /\ resp' = NoRequest
                  /\ clock' = clock + 1
                  /\ pc' = "loop"
                  /\ cursor' = 1
    /\ results' = <<>>
    /\ trail' = <<>>
    /\ dup' = NoRequest
    /\ UNCHANGED <<pluginContext, store, seq, load, faults, batch>>

Faults == {[at |-> k, aborts |-> a] : k \in 1..3, a \in BOOLEAN}

\* One iteration of the loop over validatedRows.
ImportRow ==
    /\ pc = "loop"
    /\ cursor <= Len(batch.rows)
    /\ LET row == batch.rows[cursor]
           db == [view |-> tx.view, seq |-> seq, aborted |-> tx.status = "aborted"]
       IN  IF row.isValid /\ ~req.hasActions
           THEN \* duplicateActions[row.rowIndex] throws: the outer catch
                /\ tx' = [tx EXCEPT !.status = "rolledback"]
                /\ resp' = [kind |-> "response", status |-> "500",
                            error |-> "Import failed: " \o
                                "Cannot read properties of undefined"]
                /\ pc' = "idle"
                /\ UNCHANGED <<seq, faults, cursor, results, trail>>
           ELSE \E fault \in Faults \cup {NoFault} :
                \E pick \in Candidates(tx.view, row,
                                       IF row.isValid
                                       THEN DuplicateActionOf(req.duplicateActions, row)
                                       ELSE "create",
                                       req.riskType, req.linkTo) :
                  LET out == ProcessRow(db, row, req.duplicateActions, req.riskType,
                                        req.linkTo, clock, fault, pick)
                      clean == ProcessRow(db, row, req.duplicateActions, req.riskType,
                                          req.linkTo, clock, NoFault, pick)
                  IN /\ fault # NoFault => (faults < MaxFaults /\ out # clean)
                     /\ faults' = IF fault # NoFault THEN faults + 1 ELSE faults
                     /\ tx' = [tx EXCEPT !.view = out.view,
                                         !.status = IF out.aborted THEN "aborted" ELSE @]
                     /\ seq' = out.seq
                     /\ results' = Append(results, out.result)
                     /\ trail' = Append(trail, [view |-> out.view, stmts |-> out.stmts])
                     /\ cursor' = cursor + 1
                     /\ UNCHANGED <<resp, pc>>
    /\ UNCHANGED <<pluginContext, store, clock, load, batch, dup, req>>

\* transaction.commit() and the response; or commit throws and the outer
\* catch runs.
ImportCommit ==
    /\ pc = "loop"
    /\ cursor > Len(batch.rows)
    /\ \E committed \in BOOLEAN :
        IF committed
        THEN /\ store' = IF tx.status = "aborted" THEN store ELSE tx.view
             /\ tx' = [tx EXCEPT !.status =
                          IF tx.status = "aborted" THEN "rolledback" ELSE "committed"]
             /\ resp' = [kind |-> "response", status |-> "200",
                         results |-> results, summary |-> ImportSummary(results)]
             /\ faults' = faults
        ELSE /\ store' = store
             /\ faults < MaxFaults
             /\ faults' = faults + 1
             /\ tx' = [tx EXCEPT !.status = "rolledback"]
             /\ \E status \in {"500", "none"} :
                  resp' = [kind |-> "response", status |-> status,
                           error |-> "Import failed: commit failed"]
    /\ pc' = "idle"
    /\ UNCHANGED <<pluginContext, seq, clock, load, batch, dup, req, cursor, results,
                   trail>>

Next ==
    \/ onLoad \/ onUnload \/ onEnable \/ onDisable
    \/ Validated
    \/ CheckDuplicates
    \/ ImportBegin
    \/ ImportRow
    \/ ImportCommit

Spec == Init /\ [][Next]_vars

\* The same routes serving sessions whose risk type is absent or unknown.
NextUntyped ==
    \/ onLoad \/ onUnload \/ onEnable \/ onDisable
    \/ ValidatedUntyped
    \/ CheckDuplicates
    \/ ImportBegin
    \/ ImportRow
    \/ ImportCommit

SpecUntyped == Init /\ [][NextUntyped]_vars

-----------------------------------------------------------------------------
(* POST /validate *)

PROJECT_RISK_FIELDS ==
    <<[field |-> "risk_name", label |-> "Risk name",
       required |-> TRUE, type |-> "string"],
      [field |-> "risk_description", label |-> "Risk description",
       required |-> TRUE, type |-> "string"],
      [field |-> "ai_lifecycle_phase", label |-> "AI lifecycle phase",
       required |-> FALSE, type |-> "enum",
      options |-> <<"Problem definition & planning", "Data collection & processing", "Model development & training",
                    "Model validation & testing", "Deployment & integration", "Monitoring & maintenance",
                    "Decommissioning & retirement">>],
      [field |-> "risk_category", label |-> "Risk category",
       required |-> FALSE, type |-> "enum",
      options |-> <<"Strategic risk", "Operational risk", "Compliance risk",
                    "Financial risk", "Cybersecurity risk", "Reputational risk",
                    "Legal risk", "Technological risk", "Third-party/vendor risk",
                    "Environmental risk", "Human resources risk", "Geopolitical risk",
                    "Fraud risk", "Data privacy risk", "Health and safety risk">>],
      [field |-> "impact", label |-> "Impact",
       required |-> FALSE, type |-> "string"],
      [field |-> "likelihood", label |-> "Likelihood",
       required |-> FALSE, type |-> "enum",
      options |-> <<"Rare", "Unlikely", "Possible",
                    "Likely", "Almost Certain">>],
      [field |-> "severity", label |-> "Severity",
       required |-> FALSE, type |-> "enum",
      options |-> <<"Negligible", "Minor", "Moderate",
                    "Major", "Catastrophic">>],
      [field |-> "review_notes", label |-> "Review notes",
       required |-> FALSE, type |-> "string"],
      [field |-> "mitigation_status", label |-> "Mitigation status",
       required |-> FALSE, type |-> "enum",
      options |-> <<"Not Started", "In Progress", "Completed",
                    "On Hold", "Deferred", "Canceled",
                    "Requires review">>],
      [field |-> "current_risk_level", label |-> "Current risk level",
       required |-> FALSE, type |-> "enum",
      options |-> <<"Very Low risk", "Low risk", "Medium risk",
                    "High risk", "Very high risk">>],
      [field |-> "deadline", label |-> "Deadline",
       required |-> FALSE, type |-> "date"],
      [field |-> "mitigation_plan", label |-> "Mitigation plan",
       required |-> FALSE, type |-> "string"]>>

VENDOR_RISK_FIELDS ==
    <<[field |-> "risk_description", label |-> "Risk description",
       required |-> TRUE, type |-> "string"],
      [field |-> "impact_description", label |-> "Impact description",
       required |-> FALSE, type |-> "string"],
      [field |-> "likelihood", label |-> "Likelihood",
       required |-> FALSE, type |-> "enum",
      options |-> <<"Very likely", "Likely", "Possible",
                    "Unlikely", "Rare">>],
      [field |-> "risk_severity", label |-> "Risk severity",
       required |-> FALSE, type |-> "enum",
      options |-> <<"Very high", "High", "Moderate",
                    "Low", "Very low">>],
      [field |-> "action_plan", label |-> "Action plan",
       required |-> FALSE, type |-> "string"],
      [field |-> "action_owner", label |-> "Action owner",
       required |-> FALSE, type |-> "string"]>>

RISK_MATRIX ==
    "Almost Certain" :>
        [Catastrophic |-> "Very high risk", Major |-> "Very high risk", Moderate |-> "High risk",
         Minor |-> "Medium risk", Negligible |-> "Low risk"] @@
    "Likely" :>
        [Catastrophic |-> "Very high risk", Major |-> "High risk", Moderate |-> "High risk",
         Minor |-> "Medium risk", Negligible |-> "Low risk"] @@
    "Possible" :>
        [Catastrophic |-> "High risk", Major |-> "High risk", Moderate |-> "Medium risk",
         Minor |-> "Low risk", Negligible |-> "Very low risk"] @@
    "Unlikely" :>
        [Catastrophic |-> "Medium risk", Major |-> "Medium risk", Moderate |-> "Low risk",
         Minor |-> "Low risk", Negligible |-> "Very low risk"] @@
    "Rare" :>
        [Catastrophic |-> "Low risk", Major |-> "Low risk", Moderate |-> "Very low risk",
         Minor |-> "Very low risk", Negligible |-> "No risk"]

\* RISK_MATRIX and its rows are object literals, so a property read that
\* finds no own key goes on to Object.prototype.  The inherited keys followed
\* here; a function value is written "function <name>".
ObjectPrototypeKeys ==
    {"constructor", "toString", "valueOf", "hasOwnProperty", "__proto__"}

FunctionNamed(name) == "function " \o name

\* obj[key] for a key that obj (an object literal) does not own.
InheritedProperty(key) ==
    IF key = "constructor" THEN FunctionNamed("Object")
    ELSE IF key = "__proto__" THEN "[object Object.prototype]"
    ELSE IF key \in ObjectPrototypeKeys THEN FunctionNamed(key)
    ELSE NULL

\* RISK_MATRIX[likelihood]: a row of the matrix, or what the prototype gives.
\* RowProperty is row[severity] for a row of the matrix.
RowProperty(row, severity) ==
    IF severity \in DOMAIN row THEN row[severity] ELSE InheritedProperty(severity)

\* value[severity] where value is RISK_MATRIX[likelihood] for an inherited
\* likelihood key: Object.prototype itself, or one of its functions (whose
\* own `name` is a string).
InheritedRowProperty(likelihood, severity) ==
    IF likelihood = "__proto__"
    THEN IF severity = "__proto__" THEN NULL ELSE InheritedProperty(severity)
    ELSE IF severity = "name"
    THEN IF likelihood = "constructor" THEN "Object" ELSE likelihood
    ELSE IF severity = "constructor" THEN FunctionNamed("Function")
    ELSE IF severity = "__proto__" THEN "[object Function.prototype]"
    ELSE InheritedProperty(severity)

\* Mutant of calculateRiskLevel: a missing severity reads as "Moderate".
calculateRiskLevelDefaulting(likelihood, severity) ==
    IF Falsy(likelihood) THEN NULL
    ELSE IF likelihood \in DOMAIN RISK_MATRIX
    THEN OrElse(RowProperty(RISK_MATRIX[likelihood], OrElse(severity, "Moderate")), NULL)
    ELSE NULL

calculateRiskLevel(likelihood, severity) ==
    IF Falsy(likelihood) \/ Falsy(severity) THEN NULL
    ELSE IF likelihood \in DOMAIN RISK_MATRIX
    THEN OrElse(RowProperty(RISK_MATRIX[likelihood], severity), NULL)
    ELSE IF likelihood \in ObjectPrototypeKeys
    THEN OrElse(InheritedRowProperty(likelihood, severity), NULL)
    ELSE NULL

\* Mutant of FieldsOf: the project schema is used for every risk type.
FieldsAlwaysProject(riskType) == PROJECT_RISK_FIELDS

\* riskType === "vendor" ? VENDOR_RISK_FIELDS : PROJECT_RISK_FIELDS
FieldsOf(riskType) ==
    IF riskType = "vendor" THEN VENDOR_RISK_FIELDS ELSE PROJECT_RISK_FIELDS

\* Mutant of ApplyMapping: the first entry for a target decides.
ApplyMappingFirstWins(mapping, data) ==
    LET targets == {mapping[i].targetField : i \in 1..Len(mapping)}
        First(f) == SetMin({i \in 1..Len(mapping) : mapping[i].targetField = f})
    IN [f \in targets |-> OrElse(Get(data, mapping[First(f)].sourceColumn), NULL)]

\* mapping.forEach: mappedData[m.targetField] = value || null; a later entry
\* for the same target replaces an earlier one.
RECURSIVE ApplyMapping(_, _)
ApplyMapping(mapping, data) ==
    IF mapping = <<>> THEN <<>>
    ELSE LET m == mapping[Len(mapping)]
         IN (m.targetField :> OrElse(Get(data, m.sourceColumn), NULL)) @@
            ApplyMapping(SubSeq(mapping, 1, Len(mapping) - 1), data)

\* The messages of the fields of `fields` that satisfy Bad, in schema order.
ErrorsOf(fields, Bad(_), Message(_)) ==
    LET bad == SelectSeq(fields, Bad)
    IN [k \in 1..Len(bad) |-> Message(bad[k])]

\* requiredFields.forEach: if (!mappedData[field]) errors.push(...)
RequiredErrors(fields, mappedData) ==
    LET Bad(f) == f.required /\ Falsy(Get(mappedData, f.field))
        Message(f) == OrElse(f.label, f.field) \o " is required"
    IN ErrorsOf(fields, Bad, Message)

\* Mutant of EnumErrors: a null value is checked against the options too.
EnumErrorsOnNull(fields, mappedData) ==
    LET Bad(f) == /\ f.type = "enum"
                  /\ Get(mappedData, f.field) \notin SeqRange(f.options)
        Message(f) == f.label \o " must be one of: " \o Join(f.options, ", ")
    IN ErrorsOf(fields, Bad, Message)

\* fields.filter(type === "enum").forEach: value && options &&
\* !options.includes(value)
EnumErrors(fields, mappedData) ==
    LET Bad(f) == /\ f.type = "enum"
                  /\ ~Falsy(Get(mappedData, f.field))
                  /\ "options" \in DOMAIN f
                  /\ Get(mappedData, f.field) \notin SeqRange(f.options)
        Message(f) == f.label \o " must be one of: " \o Join(f.options, ", ")
    IN ErrorsOf(fields, Bad, Message)

\* new Date(value) on the date strings of the inputs: the strings it parses,
\* with their toISOString(); every other string gives an invalid date.
ParsedDates ==
    "2030-01-01" :> "2030-01-01T00:00:00.000Z" @@
    "2030-01-01T00:00:00.000Z" :> "2030-01-01T00:00:00.000Z" @@
    "Jan 1, 2030 UTC" :> "2030-01-01T00:00:00.000Z"

\* isNaN(parsed.getTime())
InvalidDate(value) == value \notin DOMAIN ParsedDates

\* fields.filter(type === "date").forEach: if (value) and the date is invalid
DateErrors(fields, mappedData) ==
    LET Bad(f) == /\ f.type = "date"
                  /\ ~Falsy(Get(mappedData, f.field))
                  /\ InvalidDate(Get(mappedData, f.field))
        Message(f) == f.label \o " must be a valid date"
    IN ErrorsOf(fields, Bad, Message)

\* Mutant of NormalizeDates: a parsed date is left as the file wrote it.
NormalizeDatesKeepsInput(fields, mappedData) == mappedData

\* mappedData[field.field] = parsed.toISOString() for the valid dates.
NormalizeDates(fields, mappedData) ==
    LET dates == {fields[k].field : k \in {j \in 1..Len(fields) : fields[j].type = "date"}}
    IN [f \in DOMAIN mappedData |->
           IF f \in dates /\ ~Falsy(mappedData[f]) /\ ~InvalidDate(mappedData[f])
           THEN ParsedDates[mappedData[f]]
           ELSE mappedData[f]]

\* The "Calculate risk level" block.
WithRiskLevel(riskType, autoCalculate, mappedData) ==
    IF ~autoCalculate THEN mappedData
    ELSE IF riskType = "project"
    THEN LET level == calculateRiskLevel(Get(mappedData, "likelihood"),
                                         Get(mappedData, "severity"))
         IN IF Falsy(level) THEN mappedData
            ELSE ("risk_level_autocalculated" :> level) @@ mappedData
    ELSE IF riskType = "vendor"
    THEN LET level == calculateRiskLevel(Get(mappedData, "likelihood"),
                                         Get(mappedData, "risk_severity"))
         IN IF Falsy(level) THEN mappedData
            ELSE ("risk_level" :> level) @@ mappedData
    ELSE mappedData

\* Mutant of RowErrors: the date errors come first.
RowErrorsDatesFirst(fields, mappedData) ==
    DateErrors(fields, mappedData) \o RequiredErrors(fields, mappedData)
        \o EnumErrors(fields, mappedData)

\* The `errors` array of a row: the three checks push in this order.
RowErrors(fields, mappedData) ==
    RequiredErrors(fields, mappedData) \o EnumErrors(fields, mappedData)
        \o DateErrors(fields, mappedData)

\* Mutant of ValidateRow: a row whose level cannot be calculated is in error.
ValidateRowLevelRequired(row, mapping, riskType, autoCalculate) ==
    LET fields == FieldsOf(riskType)
        mappedData == ApplyMapping(mapping, row.data)
        data == WithRiskLevel(riskType, autoCalculate,
                              NormalizeDates(fields, mappedData))
        errors == RowErrors(fields, mappedData) \o
                    (IF autoCalculate /\ data = NormalizeDates(fields, mappedData)
                     THEN <<"Risk level could not be calculated">> ELSE <<>>)
    IN [rowIndex |-> row.rowIndex, isValid |-> Len(errors) = 0,
        errors |-> errors, data |-> data]

\* The callback of rows.map.
ValidateRow(row, mapping, riskType, autoCalculate) ==
    LET fields == FieldsOf(riskType)
        mappedData == ApplyMapping(mapping, row.data)
        errors == RowErrors(fields, mappedData)
    IN [rowIndex |-> row.rowIndex,
        isValid |-> Len(errors) = 0,
        errors |-> errors,
        data |-> WithRiskLevel(riskType, autoCalculate,
                               NormalizeDates(fields, mappedData))]

ValidateSummary(rows) ==
    LET IsValid(r) == r.isValid
        IsInvalid(r) == ~r.isValid
    IN [total |-> Len(rows),
        valid |-> Count(rows, IsValid),
        invalid |-> Count(rows, IsInvalid)]

\* Largest number of rows of a /validate request.
MaxRows == 2

\* Rows as /parse returns them: every cell is a trimmed string, "" when the
\* cell is empty.
ParsedCells ==
    {[Name |-> "N1", Desc |-> "D1", Lik |-> "Likely", Sev |-> "Major",
      Due |-> "2030-01-01"],
     [Name |-> "N1", Desc |-> "D1", Lik |-> "", Sev |-> "", Due |-> ""],
     [Name |-> "", Desc |-> "D1", Lik |-> "Very likely", Sev |-> "High",
      Due |-> "soon"],
     [Name |-> "N1", Desc |-> "", Lik |-> "Almost Certain", Sev |-> "Moderate",
      Due |-> "Jan 1, 2030 UTC"]}

RECURSIVE ParsedBatches(_)
ParsedBatches(n) ==
    IF n = 0 THEN {<<>>}
    ELSE {Append(b, [rowIndex |-> RowIndexAt(n), data |-> cells]) :
            b \in ParsedBatches(n - 1), cells \in ParsedCells}

\* The mapping entries a caller can send, in the order it sends them.
MappingEntries ==
    <<[sourceColumn |-> "Name", targetField |-> "risk_name"],
      [sourceColumn |-> "Desc", targetField |-> "risk_description"],
      [sourceColumn |-> "Lik", targetField |-> "likelihood"],
      [sourceColumn |-> "Sev", targetField |-> "severity"],
      [sourceColumn |-> "Sev", targetField |-> "risk_severity"],
      [sourceColumn |-> "Due", targetField |-> "deadline"],
      [sourceColumn |-> "Desc", targetField |-> "risk_name"],
      [sourceColumn |-> "Sev", targetField |-> "current_risk_level"]>>

\* The entries of MappingEntries whose position is in S, in order.
RECURSIVE EntriesAt(_, _)
EntriesAt(S, n) ==
    IF n = 0 THEN <<>>
    ELSE IF n \in S THEN Append(EntriesAt(S, n - 1), MappingEntries[n])
    ELSE EntriesAt(S, n - 1)

Mappings == {EntriesAt(S, Len(MappingEntries)) : S \in SUBSET (1..Len(MappingEntries))}

\* pluginContext?.config.get("autoCalculateRiskLevel", true): undefined
\* without a context, else the configured value.
AutoCalculateSettings ==
    IF pluginContext = "null" THEN {FALSE} ELSE BOOLEAN

\* The bodies a caller sends to /validate.  A caller that has sent one sends
\* the same body again.
ValidateBodies ==
    IF req = NoRequest
    THEN {[riskType |-> riskType, mapping |-> mapping, rows |-> rows] :
            riskType \in RiskTypes, mapping \in Mappings,
            rows \in UNION {ParsedBatches(n) : n \in 0..MaxRows}}
    ELSE {[riskType |-> req.riskType, mapping |-> req.mapping, rows |-> req.rows]}

\* The handler of POST /validate (it has no await: one step).  `again` tells
\* a repeated request from a first one.
Validate ==
    /\ Quiescent
    /\ req.kind \in {"none", "validate"}
    /\ \E body \in ValidateBodies, autoCalculate \in AutoCalculateSettings :
          LET out == [k \in 1..Len(body.rows) |->
                         ValidateRow(body.rows[k], body.mapping, body.riskType,
                                     autoCalculate)]
          IN /\ req' = [kind |-> "validate", rows |-> body.rows,
                        mapping |-> body.mapping, riskType |-> body.riskType,
                        autoCalculate |-> autoCalculate,
                        again |-> req # NoRequest]
             /\ resp' = [kind |-> "response", status |-> "200",
                         results |-> out, summary |-> ValidateSummary(out)]
    /\ UNCHANGED <<pluginContext, store, seq, clock, load, faults, batch, dup, tx,
                   cursor, results, trail, pc>>

NextValidate ==
    \/ onLoad \/ onUnload \/ onEnable \/ onDisable
    \/ Validate

\* Validation is followed over the populated store.
InitValidate == Init /\ store # EmptyStore

SpecValidate == InitValidate /\ [][NextValidate]_vars

-----------------------------------------------------------------------------
(* calculateRiskLevel on its own *)

\* The values a caller can pass: the keys of the matrix, the vendor
\* vocabulary, an absent and an empty value, and names every object inherits.
LikelihoodInputs ==
    DOMAIN RISK_MATRIX \cup {NULL, "", "Often", "Very likely", "constructor", "__proto__"}

SeverityInputs ==
    DOMAIN RISK_MATRIX["Rare"] \cup {NULL, "", "High", "Very low", "name", "constructor"}

\* One call of calculateRiskLevel; calls follow one another in any order and
\* in any state of the plugin.
RiskLevel ==
    /\ Quiescent
    /\ \E likelihood \in LikelihoodInputs, severity \in SeverityInputs :
        /\ req' = [kind |-> "calculateRiskLevel", likelihood |-> likelihood,
                    severity |-> severity]
        /\ resp' = [kind |-> "value",
                     value |-> calculateRiskLevel(likelihood, severity)]
    /\ UNCHANGED <<pluginContext, store, seq, clock, load, faults, batch, dup, tx,
                   cursor, results, trail, pc>>

NextRiskLevel ==
    \/ onLoad \/ onUnload \/ onEnable \/ onDisable
    \/ RiskLevel

SpecRiskLevel == Init /\ [][NextRiskLevel]_vars

-----------------------------------------------------------------------------
(* POST /parse *)

\* Largest number of rows below the header row of an uploaded sheet.
MaxSheetRows == 2

\* 1024 * 1024, and the defaults passed to config.get.
MiB == 1048576
DefaultMaxFileSizeMB == 10
DefaultPreviewRowCount == 5

\* String.prototype.trim on the texts a cell of the sheets below holds.
Trim(text) ==
    CASE text = " " -> ""
      [] text = " A " -> "A"
      [] text = " y " -> "y"
      [] OTHER -> text

\* row[colIndex]: undefined past the end of the array (colIndex counts from 1
\* here).
CellAt(row, colIndex) == IF colIndex <= Len(row) THEN row[colIndex] ELSE NULL

\* String(h || "").trim()
HeaderText(h) == Trim(OrElse(h, ""))

\* String(row[colIndex] ?? "").trim()
CellText(cell) == Trim(IF cell = NULL THEN "" ELSE cell)

\* headers.forEach: data[header] = ...; a later column with the same header
\* replaces an earlier one.
RECURSIVE RowData(_, _, _)
RowData(headers, row, n) ==
    IF n = 0 THEN <<>>
    ELSE (headers[n] :> CellText(CellAt(row, n))) @@ RowData(headers, row, n - 1)

\* Mutant of ParsedRowAt: rows are numbered from 1.
ParsedRowFromOne(headers, row, index) ==
    [rowIndex |-> index + 1, data |-> RowData(headers, row, Len(headers))]

\* The callback of rawData.slice(1).map; index counts from 0.
ParsedRowAt(headers, row, index) ==
    [rowIndex |-> index + 2, data |-> RowData(headers, row, Len(headers))]

\* The callback of filter: Object.values(row.data).some(value.length > 0).
SomeValue(parsedRow) == \E f \in DOMAIN parsedRow.data : parsedRow.data[f] # ""

\* rawData[0].map(...) and rawData.slice(1).map(...).filter(...).
HeadersOf(rawData) == [c \in 1..Len(rawData[1]) |-> HeaderText(rawData[1][c])]

ParsedRows(rawData) ==
    SelectSeq([i \in 1..(Len(rawData) - 1) |->
                  ParsedRowAt(HeadersOf(rawData), rawData[i + 1], i - 1)],
              SomeValue)

\* A value config.get returned, or the undefined of pluginContext?. without
\* a context.
Undefined == [defined |-> FALSE]
Defined(value) == [defined |-> TRUE, value |-> value]

\* pluginContext?.config.get(key, fallback): the fallback or a configured
\* value.
ConfigGet(fallback, configured) ==
    IF pluginContext = "null" THEN {Undefined}
    ELSE {Defined(fallback), Defined(configured)}

\* buffer.length > maxFileSizeMB * 1024 * 1024; the product is NaN for an
\* undefined factor and no number is greater than NaN.
ExceedsLimit(size, maxFileSizeMB) ==
    maxFileSizeMB.defined /\ size > maxFileSizeMB.value * MiB

\* rows.slice(0, count): the whole array for an undefined count.
Slice(rows, count) ==
    IF ~count.defined THEN rows
    ELSE SubSeq(rows, 1, IF count.value < Len(rows) THEN count.value ELSE Len(rows))

\* path.extname(fileName).toLowerCase() on the names below.
Extension(fileName) ==
    CASE fileName = "risks.csv" -> ".csv"
      [] fileName = "RISKS.XLSX" -> ".xlsx"
      [] fileName = "risks.txt" -> ".txt"
      [] OTHER -> ""

BadRequest(error) == [kind |-> "response", status |-> "400", error |-> error]

\* What XLSX.read and sheet_to_json made of the buffer: the rows of the
\* first sheet as arrays of cells (rawData), unless the library throws.
Unreadable == [readable |-> FALSE, rawData |-> <<>>]
Readable(rawData) == [readable |-> TRUE, rawData |-> rawData]

\* The body of the handler of POST /parse.
ParseResponse(fileName, size, workbook, maxFileSizeMB, previewRowCount) ==
    IF size = 0 THEN BadRequest("No file content provided")
    ELSE IF Falsy(fileName) THEN BadRequest("File name is required")
    ELSE IF ExceedsLimit(size, maxFileSizeMB)
    THEN BadRequest("File size exceeds " \o ToString(maxFileSizeMB.value) \o "MB limit")
    ELSE IF Extension(fileName) \notin {".csv", ".xlsx", ".xls"}
    THEN BadRequest("Unsupported file format. Please upload a CSV or Excel file.")
    ELSE IF ~workbook.readable
    THEN [kind |-> "response", status |-> "500", error |-> "Failed to parse file"]
    ELSE IF Len(workbook.rawData) = 0 THEN BadRequest("File is empty")
    ELSE LET rawData == workbook.rawData
             rows == ParsedRows(rawData)
         IN [kind |-> "response", status |-> "200",
             columns |-> HeadersOf(rawData),
             rowCount |-> Len(rows),
             preview |-> Slice(rows, previewRowCount),
             allRows |-> rows]

\* Uploads: header rows and rows of cells as sheet_to_json gives them (a
\* blank line is an empty array, a trailing empty cell is left out, a cell
\* keeps its surrounding blanks).
HeaderRows == {<<"A", "B">>, <<"A", " A ">>, <<"A">>}

CellRows == {<<>>, <<"", " ">>, <<"x">>, <<NULL, " y ">>, <<"", "x">>}

RECURSIVE CellRowsUpTo(_)
CellRowsUpTo(n) ==
    IF n = 0 THEN {<<>>}
    ELSE CellRowsUpTo(n - 1) \cup
         {Append(rs, r) : rs \in {q \in CellRowsUpTo(n - 1) : Len(q) = n - 1},
                          r \in CellRows}

Sheets ==
    {<<>>} \cup {<<h>> \o rs : h \in HeaderRows, rs \in CellRowsUpTo(MaxSheetRows)}

FileNames == {"risks.csv", "RISKS.XLSX", "risks.txt", NULL}

\* buffer.length; 0 stands for an absent or empty fileContent.
FileSizes == {0, MiB, DefaultMaxFileSizeMB * MiB, DefaultMaxFileSizeMB * MiB + 1}

\* The handler of POST /parse (it has no await: one step).  One upload is
\* followed per behaviour.
Parse ==
    /\ Quiescent
    /\ req = NoRequest
    /\ \E fileName \in FileNames, size \in FileSizes,
          workbook \in {Readable(rawData) : rawData \in Sheets} \cup {Unreadable},
          maxFileSizeMB \in ConfigGet(DefaultMaxFileSizeMB, 1),
          previewRowCount \in ConfigGet(DefaultPreviewRowCount, 1) :
        /\ req' = [kind |-> "parse", fileName |-> fileName, size |-> size,
                   readable |-> workbook.readable, rawData |-> workbook.rawData,
                   maxFileSizeMB |-> maxFileSizeMB,
                   previewRowCount |-> previewRowCount]
        /\ resp' = ParseResponse(fileName, size, workbook, maxFileSizeMB,
                                 previewRowCount)
    /\ UNCHANGED <<pluginContext, store, seq, clock, load, faults, batch, dup, tx,
                   cursor, results, trail, pc>>

NextParse ==
    \/ onLoad \/ onUnload \/ onEnable \/ onDisable
    \/ Parse

SpecParse == Init /\ [][NextParse]_vars

-----------------------------------------------------------------------------
(* Properties of the import ledger *)

Rows == batch.rows

\* Rows the loop has handled so far.
Handled == 1..Len(results)

\* The transaction's tables before and after the loop handled row k.
Before(k) == IF k = 1 THEN tx.snapshot ELSE trail[k - 1].view
After(k) == trail[k].view

\* The import has answered with the ledger.
Answered == pc = "idle" /\ resp.kind = "response" /\ resp.status = "200"

\* The row's catch block converted a failed statement of row k.
Thrown(k) ==
    /\ results[k].action = "error"
    /\ results[k].error \in {"statement failed", "current transaction is aborted"}

\* The decision the action map holds for row k ("none": no entry).
Decision(k) ==
    IF Rows[k].rowIndex \in DOMAIN req.duplicateActions
    THEN req.duplicateActions[Rows[k].rowIndex]
    ELSE "none"

\* C10: the ledger of an answered import has one outcome per input row, in
\* input order and with the row's rowIndex; every outcome's action is one of
\* created, overwritten, skipped, error, and success is true exactly when the
\* action is not error.
C10_OneOutcomePerRow ==
    Answered =>
        /\ Len(resp.results) = Len(Rows)
        /\ \A k \in 1..Len(Rows) :
            /\ resp.results[k].rowIndex = Rows[k].rowIndex
            /\ resp.results[k].action \in {"created", "overwritten", "skipped", "error"}
            /\ resp.results[k].success = (resp.results[k].action # "error")

C10_Witness ==
    /\ Answered
    /\ Len(Rows) = 2
    /\ resp.results[1].action = "error"
    /\ resp.results[2].action = "created"

\* C3: a valid row whose decision is skip, of either risk type and with any
\* link target, leaves every table of the transaction as it was, sends no
\* statement, and its outcome is exactly {rowIndex, success: true, action:
\* "skipped"}.
C3_SkipWritesNothing ==
    \A k \in Handled :
        (Rows[k].isValid /\ Decision(k) = "skip") =>
            /\ After(k) = Before(k)
            /\ trail[k].stmts = 0
            /\ results[k] = [rowIndex |-> Rows[k].rowIndex, success |-> TRUE,
                             action |-> "skipped"]

C3_Witness ==
    /\ Answered
    /\ tx.status = "committed"
    /\ batch.riskType = "vendor"
    /\ req.linkTo = NoLink
    /\ \E k \in Handled :
        /\ Rows[k].isValid /\ Decision(k) = "skip"
        /\ MatchVendorRisk(store, Rows[k].data.risk_description) # {}
        /\ store = tx.snapshot

TableOf(view) == IF batch.riskType = "project" THEN view.risks ELSE view.vendorRisks
IdsOf(view) == {r.id : r \in TableOf(view)}
Rec(view, id) == CHOOSE r \in TableOf(view) : r.id = id
LiveNamed(view, name) ==
    {r.id : r \in {x \in view.risks : x.risk_name = name /\ x.is_deleted = FALSE}}
LiveDescribedOf(view, desc, vendor) ==
    {r.id : r \in {x \in view.vendorRisks :
        x.risk_description = desc /\ x.vendor_id = vendor /\ x.is_deleted = FALSE}}

\* The row's natural key has no live match in the transaction's tables.
Unmatched(view, row) ==
    IF batch.riskType = "project"
    THEN LiveNamed(view, row.data.risk_name) = {}
    ELSE LiveDescribedOf(view, row.data.risk_description, req.linkTo.id) = {}

\* The import can write the row: a project import, or a vendor import with a
\* vendor link target.
Writable ==
    \/ batch.riskType = "project"
    \/ batch.riskType = "vendor" /\ req.linkTo.type = "vendor" /\ req.linkTo.id # NoId

\* Row k was inserted as a new record and reported as created with its id.
InsertedAsNew(k) ==
    /\ results[k].action = "created"
    /\ results[k].success
    /\ results[k].riskId \notin IdsOf(Before(k))
    /\ results[k].riskId \in IdsOf(After(k))
    /\ LET r == Rec(After(k), results[k].riskId)
       IN /\ r.risk_description = Rows[k].data.risk_description
          /\ r.is_deleted = FALSE
          /\ IF batch.riskType = "project"
             THEN r.risk_name = Rows[k].data.risk_name
             ELSE r.vendor_id = req.linkTo.id
    /\ TableOf(Before(k)) \subseteq TableOf(After(k))

\* C4: a valid row whose decision is overwrite and whose natural key has no
\* live match when the row is handled is inserted as a new record and
\* reported as created, unless one of its statements fails; this holds for
\* project rows and for vendor rows with a vendor link target.
C4_OverwriteWithoutMatchCreates ==
    \A k \in Handled :
        (/\ Rows[k].isValid
         /\ Decision(k) = "overwrite"
         /\ Writable
         /\ Unmatched(Before(k), Rows[k])
         /\ ~Thrown(k))
        => InsertedAsNew(k)

C4_Witness ==
    /\ Answered
    /\ tx.status = "committed"
    /\ batch.riskType = "vendor"
    /\ \E k \in Handled :
        /\ Rows[k].isValid /\ Decision(k) = "overwrite"
        /\ Unmatched(Before(k), Rows[k])
        /\ MatchVendorRisk(Before(k), Rows[k].data.risk_description) # {}
        /\ results[k].action = "created"
        /\ results[k].riskId \in IdsOf(store)

\* C9: a valid row without an entry in the action map is inserted as a new
\* record and reported as created without an existence check (the only
\* statements are the INSERT and the link INSERT), also when a live record
\* with the same key exists or an earlier row of the import created one,
\* unless one of its statements fails.
C9_DefaultActionCreates ==
    \A k \in Handled :
        (/\ Rows[k].isValid
         /\ req.hasActions
         /\ Decision(k) = "none"
         /\ Writable
         /\ ~Thrown(k))
        => /\ InsertedAsNew(k)
           /\ trail[k].stmts =
                (IF batch.riskType = "project" /\ req.linkTo.id # NoId THEN 2 ELSE 1)

C9_Witness ==
    /\ Answered
    /\ tx.status = "committed"
    /\ batch.riskType = "project"
    /\ Len(Rows) = 2
    /\ Rows[1].isValid /\ Rows[2].isValid
    /\ Rows[1].data.risk_name = Rows[2].data.risk_name
    /\ LiveNamed(tx.snapshot, Rows[1].data.risk_name) # {}
    /\ Decision(1) = "none" /\ Decision(2) = "none"
    /\ results[1].action = "created" /\ results[2].action = "created"
    /\ Cardinality(LiveNamed(store, Rows[1].data.risk_name)) = 3

\* C7 as claimed: in a vendor import whose link target is absent, has no id
\* or is not of type vendor, every valid row gets the error outcome "Vendor
\* must be selected ..." and no vendor risk is inserted or updated.
C7_EveryValidRowFails ==
    \A k \in Handled :
        (batch.riskType = "vendor" /\ ~Writable /\ Rows[k].isValid)
        => /\ results[k].action = "error"
           /\ results[k].error = "Vendor must be selected for vendor risk import"
           /\ After(k).vendorRisks = Before(k).vendorRisks

\* C7 as amended: ... every valid row whose decision is not skip gets that
\* error outcome, a valid row whose decision is skip is reported as skipped,
\* and neither inserts or updates a vendor risk or sends a statement.
C7_NonSkippedValidRowFails ==
    \A k \in Handled :
        (batch.riskType = "vendor" /\ ~Writable /\ Rows[k].isValid)
        => /\ IF Decision(k) = "skip"
              THEN results[k].action = "skipped"
              ELSE /\ results[k].action = "error"
                   /\ results[k].success = FALSE
                   /\ results[k].error = "Vendor must be selected for vendor risk import"
           /\ After(k).vendorRisks = Before(k).vendorRisks
           /\ trail[k].stmts = 0

C7_Witness ==
    /\ Answered
    /\ batch.riskType = "vendor"
    /\ req.linkTo = [type |-> "project", id |-> 7]
    /\ Len(Rows) = 2
    /\ Rows[1].isValid /\ Rows[2].isValid
    /\ Decision(1) = "skip" /\ Decision(2) = "overwrite"
    /\ results[1].action = "skipped" /\ results[2].action = "error"
    /\ store = tx.snapshot

\* The duplicate check answered after the import committed its ledger.
CheckedAfterCommit ==
    /\ Answered
    /\ tx.status = "committed"
    /\ batch.riskType = "project"
    /\ dup.kind = "response"
    /\ dup.status = "200"

\* C8 as claimed: after an import commits a project row as created with id
\* R, the duplicate check of that row reports isDuplicate with
\* existingRiskId = R, whatever the risk table held before.
C8_RoundTripSameId ==
    CheckedAfterCommit =>
        \A k \in Handled :
            results[k].action = "created" =>
                /\ dup.duplicates[k].isDuplicate
                /\ dup.duplicates[k].existingRiskId = results[k].riskId

\* C8 as amended: ... the duplicate check of that row reports isDuplicate
\* with the id and name of a live record of that name; the id is R when R is
\* the only live record of that name.
C8_RoundTripLiveMatch ==
    CheckedAfterCommit =>
        \A k \in Handled :
            results[k].action = "created" =>
                LET live == LiveNamed(store, Rows[k].data.risk_name)
                IN /\ results[k].riskId \in live
                   /\ dup.duplicates[k].isDuplicate
                   /\ dup.duplicates[k].rowIndex = Rows[k].rowIndex
                   /\ dup.duplicates[k].existingRiskId \in live
                   /\ dup.duplicates[k].existingRiskName = Rows[k].data.risk_name
                   /\ live = {results[k].riskId} =>
                        dup.duplicates[k].existingRiskId = results[k].riskId

C8_Witness ==
    /\ CheckedAfterCommit
    /\ tx.snapshot # EmptyStore
    /\ \E k \in Handled :
        /\ results[k].action = "created"
        /\ LiveNamed(store, Rows[k].data.risk_name) = {results[k].riskId}
        /\ dup.duplicates[k].existingRiskId = results[k].riskId

\* The fields of a mapped row that an overwrite can carry.
MappedFields ==
    IF batch.riskType = "project"
    THEN SeqRange(ProjectRequired) \cup SeqRange(ProjectOptional)
            \cup {"risk_level_autocalculated"}
    ELSE SeqRange(VendorRequired) \cup SeqRange(VendorOptional) \cup {"risk_level"}

\* C5: when an overwrite row matches a record, for both risk types, every
\* field that is absent or null in the row keeps its stored value, the
\* updated timestamp is set to the time of the import, and the outcome is
\* overwritten with the id of the record that existed.
C5_OverwriteKeepsAbsentFields ==
    \A k \in Handled :
        results[k].action = "overwritten" =>
            /\ results[k].riskId \in IdsOf(Before(k))
            /\ LET old == Rec(Before(k), results[k].riskId)
                   new == Rec(After(k), results[k].riskId)
               IN /\ \A f \in MappedFields :
                        Falsy(Get(Rows[k].data, f)) => new[f] = old[f]
                  /\ new.updated_at = clock

\* C1: an import that answers with its ledger has committed the records of
\* all rows it reports as created or overwritten; an import that fails
\* leaves the committed tables as they were when its transaction began.
C1_ImportIsAtomic ==
    (pc = "idle" /\ resp.kind = "response" /\ tx.status # "none") =>
        IF resp.status = "200"
        THEN \A k \in Handled :
                results[k].action \in {"created", "overwritten"} =>
                    /\ results[k].riskId \in IdsOf(store)
                    /\ Rec(store, results[k].riskId) = Rec(tx.view, results[k].riskId)
        ELSE store = tx.snapshot

\* A sequence without its k-th element.
Without(seqn, k) ==
    [j \in 1..(Len(seqn) - 1) |-> IF j < k THEN seqn[j] ELSE seqn[j + 1]]

\* The runs of the import loop over `rows` in which no statement fails, from
\* the tables and sequences of `run`.
RECURSIVE CleanRuns(_, _)
CleanRuns(rows, run) ==
    IF rows = <<>> THEN {run}
    ELSE UNION {
        CleanRuns(Tail(rows),
            LET out == ProcessRow([view |-> run.view, seq |-> run.seq, aborted |-> FALSE],
                                  Head(rows), req.duplicateActions, batch.riskType,
                                  req.linkTo, clock, NoFault, pick)
            IN [view |-> out.view, seq |-> out.seq,
                results |-> Append(run.results, out.result)]) :
        pick \in Candidates(run.view, Head(rows),
                            IF Head(rows).isValid
                            THEN DuplicateActionOf(req.duplicateActions, Head(rows))
                            ELSE "create",
                            batch.riskType, req.linkTo)}

\* C2: when a statement of one row fails, the import still commits and the
\* other rows get the outcomes and the tables get the contents they would
\* have had if the failing row had not been in the input.
C2_RowFailureIsLocal ==
    (Answered /\ \E k \in Handled : Thrown(k)) =>
        LET k == SetMin({j \in Handled : Thrown(j)})
        IN \E run \in CleanRuns(Without(Rows, k),
                                   [view |-> tx.snapshot, seq |-> tx.seq,
                                    results |-> <<>>]) :
             /\ Without(results, k) = run.results
             /\ store = run.view

-----------------------------------------------------------------------------
(* Properties of the summaries *)

\* Number of outcomes of the answered ledger with the given action.
Outcomes(action) ==
    Cardinality({k \in 1..Len(resp.results) : resp.results[k].action = action})

\* C11: in an answered import the counters agree with the ledger: total is
\* the number of input rows and the sum of created, overwritten, skipped and
\* errors, each counter is the number of outcomes with that action, and
\* success is created + overwritten + skipped.
C11_CountersMatchLedger ==
    Answered =>
        LET sm == resp.summary
        IN /\ sm.total = Len(Rows)
           /\ sm.created = Outcomes("created")
           /\ sm.overwritten = Outcomes("overwritten")
           /\ sm.skipped = Outcomes("skipped")
           /\ sm.errors = Outcomes("error")
           /\ sm.total = sm.created + sm.overwritten + sm.skipped + sm.errors
           /\ sm.success = sm.created + sm.overwritten + sm.skipped

C11_Witness ==
    /\ Answered
    /\ resp.summary.total = 2
    /\ resp.summary.skipped = 1
    /\ resp.summary.errors = 1
    /\ resp.summary.success = 1

-----------------------------------------------------------------------------
(* Properties of the records the import writes *)

\* The optional fields of the schema of the batch.
OptionalFields ==
    IF batch.riskType = "project"
    THEN SeqRange(ProjectOptional)
    ELSE SeqRange(VendorOptional)

\* C12: the record of every row reported as created holds a non-null value
\* in each optional field of its schema that the row does not supply, for
\* project and vendor records alike.
C12_CreatedRecordIsComplete ==
    \A k \in Handled :
        (results[k].action = "created" /\ results[k].riskId \in IdsOf(After(k))) =>
            LET r == Rec(After(k), results[k].riskId)
            IN \A f \in OptionalFields :
                  Falsy(Get(Rows[k].data, f)) => r[f] # NULL

\* The junction rows the loop added while it handled row k.
AddedProjectLinks(k) == After(k).projects_risks \ Before(k).projects_risks
AddedFrameworkLinks(k) == After(k).frameworks_risks \ Before(k).frameworks_risks

\* C13: in a project import, a row reported as created adds exactly the
\* junction row (target id, record id) to projects_risks when the link target
\* is a project with an id, to frameworks_risks when it is a framework with
\* an id, and to no other table; every other row (overwritten, skipped,
\* error, or created without such a target) adds no junction row; no
\* junction row is ever removed.
C13_JunctionRowIffCreatedAndLinked ==
    batch # NoBatch /\ batch.riskType = "project" =>
        \A k \in Handled :
            LET created == results[k].action = "created"
                toProject == req.linkTo.type = "project" /\ req.linkTo.id # NoId
                toFramework == req.linkTo.type = "framework" /\ req.linkTo.id # NoId
            IN /\ AddedProjectLinks(k) =
                    IF created /\ toProject
                    THEN {<<req.linkTo.id, results[k].riskId>>} ELSE {}
               /\ AddedFrameworkLinks(k) =
                    IF created /\ toFramework
                    THEN {<<req.linkTo.id, results[k].riskId>>} ELSE {}
               /\ Before(k).projects_risks \subseteq After(k).projects_risks
               /\ Before(k).frameworks_risks \subseteq After(k).frameworks_risks

C13_Witness ==
    /\ Answered
    /\ tx.status = "committed"
    /\ batch.riskType = "project"
    /\ req.linkTo.type = "framework"
    /\ Len(results) = 2
    /\ results[1].action = "overwritten"
    /\ results[2].action = "created"
    /\ store.frameworks_risks = {<<req.linkTo.id, results[2].riskId>>}
    /\ store.projects_risks = {}

-----------------------------------------------------------------------------
(* Properties of check-duplicates *)

\* Check-duplicates has answered with its list.
Checked == dup.kind = "response" /\ dup.status = "200"

\* The entry of a row that is not a duplicate.
NotDuplicate(e) ==
    ~e.isDuplicate /\ e.existingRiskId = NoId /\ e.existingRiskName = NULL

\* The invalid rows of an answered check-duplicates have the not-a-duplicate
\* entry and no SELECT; a valid row has at most one SELECT.
LookupOnlyForValidRows ==
    Checked =>
        \A k \in 1..Len(Rows) :
            /\ dup.duplicates[k].rowIndex = Rows[k].rowIndex
            /\ IF Rows[k].isValid
               THEN dup.queries[k] <= 1
               ELSE dup.queries[k] = 0 /\ NotDuplicate(dup.duplicates[k])

\* A step that answers a check-duplicates request.
AnswersCheck == dup' # dup /\ dup'.kind = "response"

\* C14: check-duplicates returns every invalid row as not a duplicate, with
\* null existing id and name, without a SELECT; it sends at most one SELECT
\* for a valid row; and a step that answers a check-duplicates request, with
\* any status, leaves the tables and the id sequences as they were.
C14_CheckDuplicatesReadOnly ==
    /\ []LookupOnlyForValidRows
    /\ [][AnswersCheck => (store' = store /\ seq' = seq)]_vars

C14_Witness ==
    /\ Checked
    /\ batch.riskType = "project"
    /\ Len(Rows) = 2
    /\ ~Rows[1].isValid
    /\ Rows[2].isValid
    /\ dup.queries = <<0, 1>>
    /\ dup.duplicates[2].isDuplicate
    /\ MatchRisk(store, Rows[1].data.risk_name) # {}

\* C15: in the summary of an answered check-duplicates, duplicates is the
\* number of valid rows reported with a match and unique is the number of
\* valid rows reported without one; invalid rows count toward neither.
C15_InvalidRowsCountTowardNeither ==
    Checked =>
        /\ dup.summary.duplicates =
              Cardinality({k \in 1..Len(Rows) :
                              Rows[k].isValid /\ dup.duplicates[k].isDuplicate})
        /\ dup.summary.unique =
              Cardinality({k \in 1..Len(Rows) :
                              Rows[k].isValid /\ ~dup.duplicates[k].isDuplicate})

-----------------------------------------------------------------------------
(* Properties of natural-key matching *)

\* The natural key of a mapped row and of a stored record of the batch's
\* risk type.
RowKey(row) ==
    IF batch.riskType = "project" THEN row.data.risk_name ELSE row.data.risk_description
RecordKey(r) ==
    IF batch.riskType = "project" THEN r.risk_name ELSE r.risk_description

\* The soft-deleted records of a view.
Deleted(view) == {r \in TableOf(view) : r.is_deleted}

\* Row k is an overwrite row the import can write, no statement of which
\* failed, and whose key has no live record with exactly that key (for a
\* vendor row: of the selected vendor).
OverwriteWithoutLiveMatch(k) ==
    /\ Rows[k].isValid
    /\ Decision(k) = "overwrite"
    /\ Writable
    /\ ~Thrown(k)
    /\ Unmatched(Before(k), Rows[k])

\* C16: a record that check-duplicates reports as the duplicate of a row is
\* not soft-deleted and carries exactly the row's key (same case); an
\* overwrite row whose key is carried only by soft-deleted records, or by
\* records whose key differs in case, is inserted as a new record; and no
\* row of an import changes or removes a soft-deleted record.
C16_DeletedRecordsNeverMatch ==
    /\ Checked =>
          \A k \in 1..Len(Rows) :
              dup.duplicates[k].isDuplicate =>
                  \E r \in TableOf(store) :
                      /\ r.id = dup.duplicates[k].existingRiskId
                      /\ ~r.is_deleted
                      /\ RecordKey(r) = RowKey(Rows[k])
                      /\ dup.duplicates[k].existingRiskName = RowKey(Rows[k])
    /\ \A k \in Handled :
          /\ Deleted(Before(k)) \subseteq Deleted(After(k))
          /\ OverwriteWithoutLiveMatch(k) => InsertedAsNew(k)

\* A committed import with an overwrite row N2 created as new although a
\* soft-deleted record carries its key and a live record differs from it in
\* case only.
C16_Witness ==
    /\ Answered
    /\ tx.status = "committed"
    /\ batch.riskType = "project"
    /\ \E k \in Handled :
          /\ Rows[k].isValid
          /\ Decision(k) = "overwrite"
          /\ \E r \in Deleted(tx.snapshot) : r.risk_name = Rows[k].data.risk_name
          /\ \E r \in tx.snapshot.risks : ~r.is_deleted /\ r.risk_name = "n2"
          /\ Rows[k].data.risk_name = "N2"
          /\ results[k].action = "created"
          /\ Deleted(tx.snapshot) \subseteq store.risks

-----------------------------------------------------------------------------
(* Properties of requests without tenant context *)

\* The session's requests carry no tenant.
NoTenant == batch # NoBatch /\ batch.tenantId = NULL

\* Without a tenant, check-duplicates answers 401 with no list and no SELECT,
\* and import answers with a top-level failure and no ledger, never enters
\* its loop, and the transaction it opened (if the database handle was
\* there to open one) is rolled back with its tables untouched.
NoTenantNoAccess ==
    NoTenant =>
        /\ pc = "idle"
        /\ dup.kind = "response" =>
              /\ dup.status = "401"
              /\ dup.error = "Unauthorized - tenant not found"
              /\ dup.queries = <<>>
              /\ "duplicates" \notin DOMAIN dup
        /\ resp.kind = "response" =>
              /\ resp.status \in {"401", "500"}
              /\ "results" \notin DOMAIN resp
              /\ results = <<>> /\ trail = <<>>
              /\ IF resp.status = "401"
                 THEN /\ tx.status = "rolledback"
                      /\ tx.view = tx.snapshot
                      /\ resp.error = "Unauthorized - tenant not found"
                 ELSE tx.status = "none"

\* C17: a request without tenant context reads and writes nothing:
\* check-duplicates answers unauthorized before any query; import rolls back
\* the transaction it opened without a statement in it and answers with one
\* top-level failure and no ledger; no step of such a session changes the
\* tables or the id sequences.
C17_NoTenantNoAccess ==
    /\ []NoTenantNoAccess
    /\ [][(batch'.kind = "batch" /\ batch'.tenantId = NULL)
            => (store' = store /\ seq' = seq)]_vars

C17_Witness ==
    /\ NoTenant
    /\ Len(Rows) = 2
    /\ Rows[1].isValid
    /\ pluginContext = "ctx"
    /\ dup = NoRequest
    /\ resp.kind = "response"
    /\ resp.status = "401"
    /\ tx.status = "rolledback"
    /\ store # EmptyStore

-----------------------------------------------------------------------------
(* Properties of validate *)

\* Validate has answered the request in req.
ValidateAnswered == req.kind = "validate" /\ resp.kind = "response"

\* The positions of the mapping entries that target field f.
EntriesFor(f) == {i \in 1..Len(req.mapping) : req.mapping[i].targetField = f}

\* The cell the mapping assigns to field f of input row k (NULL: unmapped).
MappedCell(k, f) ==
    IF EntriesFor(f) = {} THEN NULL
    ELSE req.rows[k].data[req.mapping[SetMax(EntriesFor(f))].sourceColumn]

\* Field f of input row k is null, empty or unmapped.
Missing(k, f) == MappedCell(k, f) = NULL \/ MappedCell(k, f) = ""

\* The required fields of each risk type, with their messages.
RequiredMessage ==
    [project |-> [risk_name |-> "Risk name is required",
                  risk_description |-> "Risk description is required"],
     vendor |-> [risk_description |-> "Risk description is required"]]

\* The "is required" messages of any field of either schema.
AnyRequiredMessage ==
    {PROJECT_RISK_FIELDS[i].label \o " is required" : i \in 1..Len(PROJECT_RISK_FIELDS)}
        \cup
    {VENDOR_RISK_FIELDS[i].label \o " is required" : i \in 1..Len(VENDOR_RISK_FIELDS)}

\* The schema fields other than the required ones that some entry maps.
OptionalMapped ==
    {req.mapping[i].targetField : i \in 1..Len(req.mapping)}
        \ DOMAIN RequiredMessage[req.riskType]

\* C18: a validated row carries the error "<label> is required" of a
\* required field of the active schema exactly when the field is null, empty
\* or unmapped in the row; the required fields are risk_name and
\* risk_description for project rows and risk_description alone for vendor
\* rows, no other field gets such an error, and a row with every required
\* field present and no optional field mapped is valid.
C18_RequiredFieldErrors ==
    ValidateAnswered =>
        \A k \in 1..Len(req.rows) :
            LET errors == SeqRange(resp.results[k].errors)
                required == RequiredMessage[req.riskType]
            IN /\ \A f \in DOMAIN required :
                     (required[f] \in errors) <=> Missing(k, f)
               /\ errors \cap AnyRequiredMessage
                     \subseteq {required[f] : f \in DOMAIN required}
               /\ ((\A f \in DOMAIN required : ~Missing(k, f)) /\ OptionalMapped = {})
                     => resp.results[k].isValid

\* A vendor request whose rows have no risk name: the first row is valid
\* with only the description mapped, the second lacks the description.
C18_Witness ==
    /\ ValidateAnswered
    /\ req.riskType = "vendor"
    /\ Len(req.rows) = 2
    /\ OptionalMapped = {}
    /\ Missing(1, "risk_name") /\ ~Missing(1, "risk_description")
    /\ resp.results[1].isValid
    /\ Missing(2, "risk_description")
    /\ resp.results[2].errors = <<"Risk description is required">>

\* The messages a schema can produce, in the order the claim gives: the
\* required-field messages, then the enum messages, then the date messages,
\* each group in schema order.
MessagesOf(fields) ==
    LET IsRequired(f) == f.required
        IsEnum(f) == f.type = "enum"
        IsDate(f) == f.type = "date"
        required == SelectSeq(fields, IsRequired)
        enums == SelectSeq(fields, IsEnum)
        dates == SelectSeq(fields, IsDate)
    IN [i \in 1..Len(required) |-> required[i].label \o " is required"] \o
       [i \in 1..Len(enums) |->
           enums[i].label \o " must be one of: " \o Join(enums[i].options, ", ")] \o
       [i \in 1..Len(dates) |-> dates[i].label \o " must be a valid date"]

ProjectMessages == MessagesOf(PROJECT_RISK_FIELDS)
VendorMessages == MessagesOf(VENDOR_RISK_FIELDS)

\* The messages of the schema of the request.
MessagesInOrder ==
    IF req.riskType = "vendor" THEN VendorMessages ELSE ProjectMessages

\* The position of a message in MessagesInOrder.
Rank(message) ==
    CHOOSE i \in 1..Len(MessagesInOrder) : MessagesInOrder[i] = message

\* C19: validate answers with one mapped row per input row, in input order
\* and with the input row's rowIndex; isValid is true exactly when the row's
\* error list is empty; summary.total is the number of input rows, valid and
\* invalid count the rows by isValid and add up to total; and the errors of
\* a row are in the order required, enum, date, each group in schema order.
C19_OneMappedRowPerInput ==
    ValidateAnswered =>
        /\ Len(resp.results) = Len(req.rows)
        /\ \A k \in 1..Len(req.rows) :
              LET r == resp.results[k]
              IN /\ r.rowIndex = req.rows[k].rowIndex
                 /\ r.isValid <=> (r.errors = <<>>)
                 /\ \A i \in 1..Len(r.errors) :
                       r.errors[i] \in SeqRange(MessagesInOrder)
                 /\ \A i, j \in 1..Len(r.errors) :
                       i < j => Rank(r.errors[i]) < Rank(r.errors[j])
        /\ resp.summary.total = Len(req.rows)
        /\ resp.summary.valid =
              Cardinality({k \in 1..Len(req.rows) : resp.results[k].isValid})
        /\ resp.summary.invalid =
              Cardinality({k \in 1..Len(req.rows) : ~resp.results[k].isValid})
        /\ resp.summary.total = resp.summary.valid + resp.summary.invalid

C19_Witness ==
    /\ ValidateAnswered
    /\ req.riskType = "project"
    /\ Len(req.rows) = 2
    /\ resp.results[1].isValid
    /\ resp.results[2].errors =
          <<"Risk name is required",
            "Likelihood must be one of: Rare, Unlikely, Possible, Likely, Almost Certain",
            "Deadline must be a valid date">>
    /\ resp.summary = [total |-> 2, valid |-> 1, invalid |-> 1]

\* The positions of the enum fields of the active schema.
EnumFields ==
    {i \in 1..Len(FieldsOf(req.riskType)) : FieldsOf(req.riskType)[i].type = "enum"}

\* The enum message of a field.
EnumMessage(f) == f.label \o " must be one of: " \o Join(f.options, ", ")

\* The message of the vendor likelihood vocabulary.
VendorLikelihoodMessage ==
    "Likelihood must be one of: Very likely, Likely, Possible, Unlikely, Rare"

\* C20: a validated row carries the enum error of an enum field of the
\* active schema exactly when the field's mapped value is not null (nor
\* empty, nor unmapped) and is not one of that field's options; it carries
\* no enum error of the other schema; in particular the project likelihood
\* label "Almost Certain" is rejected in a vendor row.
C20_EnumErrors ==
    ValidateAnswered =>
        \A k \in 1..Len(req.rows) :
            LET errors == SeqRange(resp.results[k].errors)
                fields == FieldsOf(req.riskType)
            IN /\ \A i \in EnumFields :
                     (EnumMessage(fields[i]) \in errors) <=>
                        /\ ~Missing(k, fields[i].field)
                        /\ MappedCell(k, fields[i].field) \notin SeqRange(fields[i].options)
               /\ (req.riskType = "vendor" /\ MappedCell(k, "likelihood") = "Almost Certain")
                     => VendorLikelihoodMessage \in errors
               /\ req.riskType = "project" => VendorLikelihoodMessage \notin errors

C20_Witness ==
    /\ ValidateAnswered
    /\ req.riskType = "vendor"
    /\ Len(req.rows) = 2
    /\ MappedCell(1, "likelihood") = "Almost Certain"
    /\ MappedCell(1, "risk_severity") = "Moderate"
    /\ resp.results[1].errors =
          <<"Risk description is required", VendorLikelihoodMessage>>
    /\ MappedCell(2, "likelihood") = ""
    /\ resp.results[2].isValid

-----------------------------------------------------------------------------
(* Properties of calculateRiskLevel *)

Called == req.kind = "calculateRiskLevel"

\* The cell of the matrix for a pair, NULL when the pair is not a cell.
MatrixCell(likelihood, severity) ==
    IF likelihood \in DOMAIN RISK_MATRIX
    THEN IF severity \in DOMAIN RISK_MATRIX[likelihood]
         THEN RISK_MATRIX[likelihood][severity] ELSE NULL
    ELSE NULL

\* C21: riskLevel(L, S) gives no level when L or S is null or empty or when
\* (L, S) is not a cell of the matrix, and gives the cell otherwise, whatever
\* was called before and whatever the state of the plugin.
C21_RiskLevelIsMatrixCell ==
    Called =>
        resp.value = IF Falsy(req.likelihood) \/ Falsy(req.severity) THEN NULL
                     ELSE MatrixCell(req.likelihood, req.severity)

-----------------------------------------------------------------------------
(* Properties of the risk level calculation of validate *)

\* The level the matrix gives for the cells mapped to fields l and s of row k.
MappedLevel(k, l, s) ==
    IF Missing(k, l) \/ Missing(k, s) THEN NULL
    ELSE MatrixCell(MappedCell(k, l), MappedCell(k, s))

\* Field f of the data returned for row k, NULL when the data has no such key.
Returned(k, f) == Get(resp.results[k].data, f)

\* C22: with auto-calculation on, a validated project row gets
\* risk_level_autocalculated = riskLevel(likelihood, severity) exactly when the
\* lookup finds a level and has no such key when it finds none;
\* current_risk_level is never created and keeps the caller's value.
C22_ProjectLevelStoredIffFound ==
    (ValidateAnswered /\ req.riskType = "project" /\ req.autoCalculate) =>
        \A k \in 1..Len(req.rows) :
            LET data == resp.results[k].data
                level == MappedLevel(k, "likelihood", "severity")
            IN /\ ("risk_level_autocalculated" \in DOMAIN data) <=> level # NULL
               /\ Returned(k, "risk_level_autocalculated") = level
               /\ ("current_risk_level" \in DOMAIN data)
                     <=> EntriesFor("current_risk_level") # {}
               /\ Returned(k, "current_risk_level")
                     = OrElse(MappedCell(k, "current_risk_level"), NULL)

C22_Witness ==
    /\ ValidateAnswered
    /\ req.riskType = "project"
    /\ req.autoCalculate
    /\ Len(req.rows) = 2
    /\ MappedCell(1, "likelihood") = "Likely"
    /\ MappedCell(1, "severity") = "Major"
    /\ Returned(1, "risk_level_autocalculated") = "High risk"
    /\ Returned(1, "current_risk_level") = "Major"
    /\ MappedCell(2, "likelihood") = "Very likely"
    /\ MappedCell(2, "severity") = "High"
    /\ "risk_level_autocalculated" \notin DOMAIN resp.results[2].data
    /\ Returned(2, "current_risk_level") = "High"

\* The options of field f of a schema.
OptionsOf(fields, f) ==
    UNION {SeqRange(fields[i].options) : i \in {j \in 1..Len(fields) : fields[j].field = f}}

\* Both cells of vendor row k are options of the vendor schema.
VendorPairValid(k) ==
    /\ MappedCell(k, "likelihood") \in OptionsOf(VENDOR_RISK_FIELDS, "likelihood")
    /\ MappedCell(k, "risk_severity") \in OptionsOf(VENDOR_RISK_FIELDS, "risk_severity")

\* The labels the matrix can give.
Levels == {RISK_MATRIX[l][s] : l \in DOMAIN RISK_MATRIX, s \in DOMAIN RISK_MATRIX["Rare"]}

\* C23: with auto-calculation on, every validated vendor row whose likelihood
\* and risk_severity are both options of the vendor schema gets a level of the
\* matrix under risk_level; a row for which the lookup finds no level keeps
\* the risk_level the caller mapped (here: none).
C23_ValidVendorPairGetsLevel ==
    (ValidateAnswered /\ req.riskType = "vendor" /\ req.autoCalculate) =>
        \A k \in 1..Len(req.rows) :
            /\ VendorPairValid(k) => Returned(k, "risk_level") \in Levels
            /\ MappedLevel(k, "likelihood", "risk_severity") = NULL
                  => "risk_level" \notin DOMAIN resp.results[k].data

-----------------------------------------------------------------------------
(* Validation is a function of the request *)

\* A step in which Validate answers.
AnswersValidate == req'.kind = "validate" /\ (req' # req \/ resp' # resp)

\* A step in which Validate answers a body it has answered before.
AnswersValidateAgain == req.kind = "validate" /\ req'.kind = "validate"

\* The errors and the verdict of each row of a response.
Verdicts(response) ==
    [k \in 1..Len(response.results) |->
        [errors |-> response.results[k].errors,
         isValid |-> response.results[k].isValid]]

-----------------------------------------------------------------------------
(* Sessions without a known risk type *)

Untyped == batch # NoBatch /\ batch.riskType \notin RiskTypes

\* A live project risk carries the risk name of row k.
NamedInRisks(k) ==
    \E r \in store.risks : ~r.is_deleted /\ r.risk_name = Get(Rows[k].data, "risk_name")

\* C25: a session whose risk type is absent or unknown is served as a project
\* session: CheckDuplicates reports a valid row as a duplicate exactly when a
\* live project risk has its risk name, and Import writes to the project risk
\* table alone.
C25_UntypedIsProject ==
    Untyped =>
        /\ (dup.kind = "response" /\ dup.status = "200" /\ req = NoRequest) =>
              \A k \in 1..Len(Rows) :
                  Rows[k].isValid => (dup.duplicates[k].isDuplicate <=> NamedInRisks(k))
        /\ \A k \in Handled : After(k).vendorRisks = Before(k).vendorRisks

-----------------------------------------------------------------------------
(* Properties of the decoder *)

\* Parse has answered the upload in req; Decoded: with the rows.
ParseAnswered == req.kind = "parse" /\ resp.kind = "response"
Decoded == ParseAnswered /\ resp.status = "200"

\* The rows of the sheet below the header row.
DataRows == SubSeq(req.rawData, 2, Len(req.rawData))

\* A cell that is empty once trimmed, and the rows of DataRows made of such
\* cells only.
BlankCell(cell) == cell \in {NULL, "", " "}
BlankRows == {i \in 1..Len(DataRows) :
                \A c \in 1..Len(DataRows[i]) : BlankCell(DataRows[i][c])}

\* The rowIndex values of the returned rows, in order.
RowIndexes == [j \in 1..Len(resp.allRows) |-> resp.allRows[j].rowIndex]

Increasing(s) == \A j \in 1..(Len(s) - 1) : s[j] < s[j + 1]

\* C26: the decoder drops exactly the data rows whose every cell is empty
\* after trimming: it returns (data rows - blank rows) rows, in the order of
\* the sheet, and never drops a row that has a non-empty cell.
C26_OnlyBlankRowsDropped ==
    Decoded =>
        /\ Len(resp.allRows) = Len(DataRows) - Cardinality(BlankRows)
        /\ Increasing(RowIndexes)

\* The data rows the filter keeps (positions below the header, from 1).
Kept == {i \in 1..Len(DataRows) :
            SomeValue(ParsedRowAt(resp.columns, DataRows[i], i - 1))}

\* The place of kept row i among the returned rows.
PlaceOf(i) == Cardinality({k \in Kept : k <= i})

\* C27 as stated: rowIndex is the row's position among the data rows, the
\* first data row being 1.
C27_RowIndexExcludesHeader ==
    Decoded =>
        /\ Len(resp.allRows) = Cardinality(Kept)
        /\ \A i \in Kept : resp.allRows[PlaceOf(i)].rowIndex = i

\* C27: rowIndex is the row's line in the sheet with the header row counted
\* as line 1 (the first data row has rowIndex 2); it is given before blank
\* rows are dropped, so a dropped row leaves a gap, and it is strictly
\* increasing over the returned rows.
C27_RowIndexIsSheetLine ==
    Decoded =>
        /\ Len(resp.allRows) = Cardinality(Kept)
        /\ \A i \in Kept : resp.allRows[PlaceOf(i)].rowIndex = i + 1
        /\ Increasing(RowIndexes)

C27_Witness ==
    /\ Decoded
    /\ req.rawData = <<(<<"A", "B">>), <<>>, (<<"x">>)>>
    /\ RowIndexes = <<3>>
    /\ resp.allRows[1].data = [A |-> "x", B |-> ""]

\* The upload passes the checks made before the sheet is read.
ReachesSheet ==
    /\ req.size # 0
    /\ ~Falsy(req.fileName)
    /\ ~ExceedsLimit(req.size, req.maxFileSizeMB)
    /\ Extension(req.fileName) \in {".csv", ".xlsx", ".xls"}
    /\ req.readable

\* C28: decoding fails with the empty-file error whenever the sheet has no
\* header row, or has one but no data row survives; a successful decode
\* returns rowCount >= 1.
C28_EmptySheetIsAnError ==
    ParseAnswered =>
        /\ Decoded => resp.rowCount >= 1
        /\ (ReachesSheet /\ (Len(req.rawData) = 0 \/ DataRows = <<>> \/ Kept = {}))
              => resp = BadRequest("File is empty")

\* The limit in bytes and the preview size the configuration gives, the
\* defaults when no configured value is available.
LimitOf(setting) ==
    (IF setting.defined THEN setting.value ELSE DefaultMaxFileSizeMB) * MiB
PreviewOf(setting) ==
    IF setting.defined THEN setting.value ELSE DefaultPreviewRowCount

Min(a, b) == IF a < b THEN a ELSE b

\* C29: in every lifecycle state a buffer larger than the configured maximum
\* (10 MiB when none is available) is rejected; preview holds the first
\* min(previewRowCount, rowCount) rows, previewRowCount being 5 by default,
\* and rowCount is the length of allRows.
C29_SizeLimitAndPreview ==
    ParseAnswered =>
        /\ req.size > LimitOf(req.maxFileSizeMB) => resp.status # "200"
        /\ Decoded =>
              /\ resp.rowCount = Len(resp.allRows)
              /\ resp.preview =
                    SubSeq(resp.allRows, 1,
                           Min(PreviewOf(req.previewRowCount), resp.rowCount))

-----------------------------------------------------------------------------
(* An import reads its own writes *)

\* Rows k - 1 and k are valid project rows with one risk name, both to be
\* overwritten; no live record has that name before row k - 1 is handled and
\* no statement of either row fails.
SameNameTwice(k) ==
    /\ batch.riskType = "project"
    /\ k > 1
    /\ Rows[k - 1].isValid /\ Rows[k].isValid
    /\ Rows[k - 1].data.risk_name = Rows[k].data.risk_name
    /\ Decision(k - 1) = "overwrite" /\ Decision(k) = "overwrite"
    /\ LiveNamed(Before(k - 1), Rows[k].data.risk_name) = {}
    /\ ~Thrown(k - 1) /\ ~Thrown(k)

\* C30: when an import holds two valid project rows with the same risk name,
\* both marked overwrite, and no live record has that name beforehand, the
\* first row is created with a new id R and the second is reported
\* overwritten with recordId R; exactly one live record then has that name,
\* in the transaction and, when these are the last rows, in the table after
\* the commit.
C30_ImportReadsItsOwnWrites ==
    \A k \in Handled :
        SameNameTwice(k) =>
            LET R == results[k - 1].riskId
                name == Rows[k].data.risk_name
            IN /\ InsertedAsNew(k - 1)
               /\ results[k] = [rowIndex |-> Rows[k].rowIndex, success |-> TRUE,
                                riskId |-> R, action |-> "overwritten"]
               /\ LiveNamed(After(k), name) = {R}
               /\ (Answered /\ tx.status = "committed" /\ k = Len(Rows))
                     => LiveNamed(store, name) = {R}

C30_Witness ==
    /\ Answered
    /\ tx.status = "committed"
    /\ Len(Rows) = 2
    /\ SameNameTwice(2)
    /\ Rows[2].data.risk_name = "N2"
    /\ \E r \in tx.snapshot.risks : r.risk_name = "N2" /\ r.is_deleted
    /\ results[1].action = "created"
    /\ results[2].action = "overwritten"
    /\ LiveNamed(store, "N2") = {results[1].riskId}

-----------------------------------------------------------------------------
(* The recommended flow: check duplicates, then import *)

\* No two live project risks of the view share a risk name.
UniqueNames(view) ==
    \A r, q \in view.risks :
        (~r.is_deleted /\ ~q.is_deleted /\ r.risk_name = q.risk_name) => r.id = q.id

\* What CheckDuplicates reports for row k on the tables the import started
\* from (no other writer in between): the row is flagged isDuplicate.
Flagged(k) == DuplicateCandidates(Rows[k], batch.riskType, tx.snapshot) # {NoId}

\* The caller decided as recommended: skip or overwrite for the flagged rows,
\* create for every other valid row.
RecommendedDecisions ==
    \A k \in 1..Len(Rows) :
        Rows[k].isValid =>
            IF Flagged(k) THEN Decision(k) \in {"skip", "overwrite"}
            ELSE Decision(k) = "create"

\* C31: if no two live project risks share a risk name and the caller imports
\* with skip or overwrite for every row CheckDuplicates flags and create for
\* every other valid row, then after the commit no two live project risks
\* share a risk name, also when several rows of the file carry one name.
C31_FlowKeepsNamesUnique ==
    (/\ Answered
     /\ tx.status = "committed"
     /\ batch.riskType = "project"
     /\ UniqueNames(tx.snapshot)
     /\ RecommendedDecisions)
    => UniqueNames(store)

\* The import can look row k up: a project row, or a vendor row with a vendor
\* link target (any vendor).
CanOverwrite ==
    batch.riskType = "project" \/ VendorLinked(req.linkTo)

\* C32: with no other writer in between, a valid row that CheckDuplicates
\* reports as a duplicate of record X and that is imported with overwrite is
\* reported overwritten with recordId X, for project rows and for vendor rows
\* with any vendor link target (taken at the first row of an import, before
\* the import itself has written).
C32_DetectorAndImporterAgree ==
    (1 \in Handled /\ Rows[1].isValid /\ Decision(1) = "overwrite" /\ CanOverwrite
        /\ ~Thrown(1))
    => \A X \in DuplicateCandidates(Rows[1], batch.riskType, tx.snapshot) \ {NoId} :
          /\ results[1].action = "overwritten"
          /\ results[1].riskId = X

\* C33: a row whose outcome is error leaves nothing in the committed tables:
\* no record, update or junction row written while the row was handled is
\* persisted, also when a statement fails after the row's INSERT succeeded.
C33_ErrorRowLeavesNothing ==
    (Answered /\ tx.status = "committed") =>
        \A k \in Handled :
            results[k].action = "error" => After(k) = Before(k)

-----------------------------------------------------------------------------
(* The end of an import *)

\* An import that opened a transaction has left the handler.
ImportOver == pc = "idle" /\ req.kind = "import" /\ tx.status # "none"

\* C34: every import that opens a transaction ends it by commit or by
\* rollback and sends one response, on every path: missing tenant, a body
\* without an action map, a failure of a row, a failure of commit, a failure
\* of rollback.
C34_OneEndOneResponse ==
    ImportOver =>
        /\ tx.status \in {"committed", "rolledback"}
        /\ resp.kind = "response"
        /\ resp.status \in {"200", "401", "500"}

-----------------------------------------------------------------------------
(* Overwriting a project record *)

\* The schema fields the row supplies: those with a non-null value in its
\* mapped data.
Supplied(row) ==
    {f \in {PROJECT_RISK_FIELDS[i].field : i \in 1..Len(PROJECT_RISK_FIELDS)} :
        f \in DOMAIN row.data /\ row.data[f] # NULL}

\* The value a column holds when it stores the row's value of field f (the
\* category column is an array of one element).
StoredForm(f, v) == IF f = "risk_category" THEN ArrayLiteral(v) ELSE v

\* A project import has committed and answered.
ProjectImportCommitted ==
    Answered /\ tx.status = "committed" /\ batch.riskType = "project"

\* Row k is the last row of the import and overwrote a record.
OverwroteLast(k) == k = Len(Rows) /\ results[k].action = "overwritten"

\* C35: after a committed project overwrite that matched a record, the stored
\* record equals the row on every schema field the row supplies with a
\* non-null value, review_notes and deadline included.
C35_OverwriteWritesEverySuppliedField ==
    ProjectImportCommitted =>
        \A k \in Handled :
            OverwroteLast(k) =>
                \A f \in Supplied(Rows[k]) :
                    Rec(store, results[k].riskId)[f] = StoredForm(f, Rows[k].data[f])

-----------------------------------------------------------------------------
(* From /validate to /import *)

\* File rows whose likelihood and severity cells are both filled, one filled,
\* or both empty.
PipelineCells ==
    {[Name |-> "N1", Desc |-> "D1", Lik |-> "Likely", Sev |-> "Major", Due |-> ""],
     [Name |-> "N1", Desc |-> "D1", Lik |-> "Almost Certain", Sev |-> "", Due |-> ""],
     [Name |-> "N1", Desc |-> "D1", Lik |-> "", Sev |-> "Catastrophic", Due |-> ""],
     [Name |-> "N1", Desc |-> "D1", Lik |-> "", Sev |-> "", Due |-> ""]}

RECURSIVE PipelineBatches(_)
PipelineBatches(n) ==
    IF n = 0 THEN {<<>>}
    ELSE {Append(b, [rowIndex |-> RowIndexAt(n), data |-> cells]) :
            b \in PipelineBatches(n - 1), cells \in PipelineCells}

\* The mapping of a file whose columns carry the project fields.
PipelineMapping == EntriesAt({1, 2, 3, 4, 6}, Len(MappingEntries))

\* The caller sends the rows of its file to /validate and keeps the results
\* as the validatedRows of its import.
ValidatedFromFile ==
    /\ pc = "idle"
    /\ \E autoCalculate \in AutoCalculateSettings, tenantId \in Tenants,
          n \in 0..(MaxLoad - load - 1) :
         \E parsed \in PipelineBatches(n) :
            /\ batch' = [kind |-> "batch",
                         rows |-> [k \in 1..n |->
                                     ValidateRow(parsed[k], PipelineMapping, "project",
                                                 autoCalculate)],
                         riskType |-> "project",
                         tenantId |-> tenantId,
                         autoCalculate |-> autoCalculate]
            /\ load' = load + 1 + n
    /\ dup' = NoRequest
    /\ req' = NoRequest
    /\ resp' = NoRequest
    /\ tx' = NoTx
    /\ cursor' = 0
    /\ results' = <<>>
    /\ trail' = <<>>
    /\ UNCHANGED <<pluginContext, store, seq, clock, faults, pc>>

NextPipeline ==
    \/ onLoad \/ onUnload \/ onEnable \/ onDisable
    \/ ValidatedFromFile
    \/ ImportBegin
    \/ ImportRow
    \/ ImportCommit

SpecPipeline == Init /\ [][NextPipeline]_vars

\* Row k was validated with auto-calculation enabled and the committed import
\* created its record.
CreatedFromValidated(k) ==
    /\ batch.autoCalculate
    /\ results[k].action = "created"
    /\ results[k].riskId \in IdsOf(store)

\* C36: every project record created by an import from a row that /validate
\* produced with auto-calculation enabled stores a risk_level_autocalculated
\* equal to the matrix value of the likelihood and severity of the same
\* record, also when one of the two was filled by its default.
C36_StoredLevelIsMatrixValue ==
    ProjectImportCommitted =>
        \A k \in Handled :
            CreatedFromValidated(k) =>
                LET r == Rec(store, results[k].riskId)
                IN r.risk_level_autocalculated = MatrixCell(r.likelihood, r.severity)

-----------------------------------------------------------------------------
(* Lifecycle hooks between the requests of a session *)

Hooks == {"onLoad", "onUnload", "onEnable", "onDisable"}

\* Mutant of ContextAfter: onDisable clears the context as onUnload does.
ContextAfterDisableClears(hook, context) ==
    IF hook \in {"onLoad", "onEnable"} THEN "ctx"
    ELSE IF hook \in {"onUnload", "onDisable"} THEN "null"
    ELSE context

\* pluginContext once the hook's first statement has run: onLoad and
\* onEnable store the context they are given, onUnload stores null,
\* onDisable has no assignment.
ContextAfter(hook, context) ==
    IF hook \in {"onLoad", "onEnable"} THEN "ctx"
    ELSE IF hook = "onUnload" THEN "null"
    ELSE context

\* The host calls a hook while no handler of the plugin is running; the hook
\* runs up to its log line.  Hook calls count in the load of a run.
HookCall ==
    /\ pc = "idle"
    /\ load < MaxLoad
    /\ \E hook \in Hooks :
        /\ pc' = hook
        /\ pluginContext' = ContextAfter(hook, pluginContext)
    /\ load' = load + 1
    /\ UNCHANGED <<store, seq, clock, faults, batch, dup, req, tx, cursor,
                   results, trail, resp>>

\* The hook logs and returns.
HookReturn ==
    /\ pc \in Hooks
    /\ pc' = "idle"
    /\ UNCHANGED <<pluginContext, store, seq, clock, load, faults, batch, dup, req,
                   tx, cursor, results, trail, resp>>

\* Sessions of project imports.
ValidatedProject == ValidatedOf({"project"})

NextLifecycle ==
    \/ HookCall
    \/ HookReturn
    \/ ValidatedProject
    \/ CheckDuplicates
    \/ ImportBegin
    \/ ImportRow
    \/ ImportCommit

SpecLifecycle == Init /\ [][NextLifecycle]_vars

\* The steps in which a request enters its handler.
ImportStarts == req = NoRequest /\ req'.kind = "import"
CheckStarts == dup = NoRequest /\ dup'.kind = "response"

\* The failure both handlers answer when the context holds no sequelize.
DatabaseNotAvailable(r) ==
    r.kind = "response" /\ r.status = "500" /\ r.error = "Database not available"

\* The valid rows of the session, each of which costs the detector one query.
ValidRows == {k \in 1..Len(Rows) : Rows[k].isValid}

\* A step of the plugin with the context absent: an import answers the
\* database failure and opens no transaction, a duplicate check issues no
\* query.
AbsentContextStep ==
    pluginContext = "null" =>
        /\ ImportStarts => DatabaseNotAvailable(resp') /\ tx' = NoTx /\ store' = store
        /\ CheckStarts => dup'.queries = <<>> /\ dup'.status \in {"401", "500"}

\* A step of the plugin with the context present and a tenant: an import
\* opens its transaction on the store, a duplicate check queries the store
\* for every valid row.
PresentContextStep ==
    (pluginContext = "ctx" /\ batch # NoBatch /\ ~MissingTenant(batch.tenantId)) =>
        /\ ImportStarts => tx'.status = "active" /\ tx'.snapshot = store
        /\ CheckStarts =>
            /\ dup'.status = "200"
            /\ \A k \in ValidRows : dup'.queries[k] = 1

\* A step that changes the context: onDisable keeps it, only onUnload clears
\* it, only onLoad and onEnable set it.
ContextStep ==
    /\ pc' = "onDisable" => pluginContext' = pluginContext
    /\ pluginContext' # pluginContext =>
        IF pluginContext' = "null" THEN pc' = "onUnload"
        ELSE pc' \in {"onLoad", "onEnable"}

-----------------------------------------------------------------------------
(* Properties of the mapping step *)

\* The target fields of the request's mapping.
Targets == {req.mapping[i].targetField : i \in 1..Len(req.mapping)}

\* The fields /validate writes after the mapping step: the date fields it
\* normalizes and the level it calculates.
DateFields == {"deadline"}
LevelFields == {"risk_level_autocalculated", "risk_level"}

\* The value the mapping gives field f of input row k.
MappedValue(k, f) == IF Missing(k, f) THEN NULL ELSE MappedCell(k, f)

\* The same target is mapped twice for row k, the earlier source cell is
\* filled and the later one is empty.
LaterEmptyPair(k, f) ==
    /\ Cardinality(EntriesFor(f)) = 2
    /\ req.rows[k].data[req.mapping[SetMin(EntriesFor(f))].sourceColumn] # ""
    /\ req.rows[k].data[req.mapping[SetMax(EntriesFor(f))].sourceColumn] = ""

\* C38: the mapping sets each target field to the row's value for the source
\* column when that is present and non-empty and to null otherwise; of several
\* pairs with one target the last decides, so a later empty cell replaces an
\* earlier value with null; a field that no pair targets stays absent.
C38_LastPairDecides ==
    ValidateAnswered =>
        \A k \in 1..Len(req.rows) :
            LET data == resp.results[k].data
            IN /\ Targets \subseteq DOMAIN data
               /\ (DOMAIN data) \ Targets \subseteq LevelFields
               /\ \A f \in Targets \ LevelFields :
                    \/ data[f] = MappedValue(k, f)
                    \/ f \in DateFields /\ MappedValue(k, f) # NULL

\* A later pair with an empty cell replaced the name an earlier pair had set.
C38_Witness ==
    /\ ValidateAnswered
    /\ Len(req.rows) >= 1
    /\ LaterEmptyPair(1, "risk_name")
    /\ resp.results[1].data["risk_name"] = NULL
    /\ "severity" \notin DOMAIN resp.results[1].data

-----------------------------------------------------------------------------
(* Properties of the date check *)

\* The date fields of the request's schema, and the error of one of them.
SchemaDates ==
    LET fields == FieldsOf(req.riskType)
    IN {fields[i] : i \in {j \in 1..Len(fields) : fields[j].type = "date"}}

DateMessage(field) == field.label \o " must be a valid date"

\* A value in normalized form: it parses, and normalizing it returns it.
Normalized(value) == value \in DOMAIN ParsedDates /\ ParsedDates[value] = value

\* The date check of row k rejected the mapped value of the field and left it
\* as it was.
DateRejected(k, field) ==
    /\ DateMessage(field) \in SeqRange(resp.results[k].errors)
    /\ resp.results[k].data[field.field] = MappedValue(k, field.field)
    /\ ~Normalized(MappedValue(k, field.field))

\* The date check of row k replaced the mapped value of the field by its
\* normalized form and reported nothing.
DateNormalized(k, field) ==
    /\ DateMessage(field) \notin SeqRange(resp.results[k].errors)
    /\ Normalized(resp.results[k].data[field.field])
    /\ MappedValue(k, field.field) \in DOMAIN ParsedDates
    /\ resp.results[k].data[field.field] = ParsedDates[MappedValue(k, field.field)]

\* The date check of row k left a null field null and reported nothing.
DateLeftNull(k, field) ==
    /\ DateMessage(field) \notin SeqRange(resp.results[k].errors)
    /\ resp.results[k].data[field.field] = NULL

\* C39: for every date field with a non-null mapped value, /validate either
\* reports "<label> must be a valid date" and leaves the value unchanged, or
\* replaces the value by its normalized ISO 8601 form and reports no date
\* error; a normalized value normalizes to itself; a null date field stays
\* null without an error.
C39_DateRejectedOrNormalized ==
    ValidateAnswered =>
        \A k \in 1..Len(req.rows) :
            \A field \in SchemaDates :
                field.field \in Targets =>
                    IF MappedValue(k, field.field) = NULL
                    THEN DateLeftNull(k, field)
                    ELSE (DateRejected(k, field) /\ ~DateNormalized(k, field))
                            \/ (DateNormalized(k, field) /\ ~DateRejected(k, field))

\* One request whose first row's deadline was rewritten to the normalized
\* form and whose second row's deadline was rejected.
C39_Witness ==
    /\ ValidateAnswered
    /\ Len(req.rows) = 2
    /\ \E field \in SchemaDates :
        /\ field.field \in Targets
        /\ MappedValue(1, field.field) = "Jan 1, 2030 UTC"
        /\ DateNormalized(1, field)
        /\ MappedValue(2, field.field) = "soon"
        /\ DateRejected(2, field)

-----------------------------------------------------------------------------
(* The order of the checks of /parse *)

SupportedExtensions == {".csv", ".xlsx", ".xls"}

\* The error of the first check that fails for the request in req, in the
\* order no content, file name, size, extension, empty file; NULL when none
\* fails.  The size limit is the configured one, 10 MiB when none is
\* available.
FirstFailure ==
    IF req.size = 0 THEN "No file content provided"
    ELSE IF Falsy(req.fileName) THEN "File name is required"
    ELSE IF req.size > LimitOf(req.maxFileSizeMB)
    THEN "File size exceeds " \o ToString(LimitOf(req.maxFileSizeMB) \div MiB)
            \o "MB limit"
    ELSE IF Extension(req.fileName) \notin SupportedExtensions
    THEN "Unsupported file format. Please upload a CSV or Excel file."
    ELSE IF req.readable /\ Len(req.rawData) = 0 THEN "File is empty"
    ELSE NULL

\* C40: the checks of the decoder run in the order no content, file name,
\* size, extension, empty file; the first that fails decides the error, so an
\* oversize file with an unsupported extension reports the size error; a
\* failed request returns no rows.
C40_FirstFailingCheckDecides ==
    ParseAnswered =>
        /\ FirstFailure # NULL => resp = BadRequest(FirstFailure)
        /\ resp.status # "200" => "allRows" \notin DOMAIN resp

=============================================================================
